---- MODULE Spec2Model ----
(***************************************************************************)
(* Conversational navigation engine of the grade-lookup bot               *)
(* (src/bot/handlers.py, src/bot/keyboards.py, src/bot/main.py).           *)
(*                                                                         *)
(* Strings that are built and parsed by the program (callback payloads)    *)
(* are sequences of tokens: a token is a maximal chunk of text that holds  *)
(* no delimiter, or one delimiter character ("_" or "|").  Splitting a     *)
(* payload is splitting its token sequence at the delimiter tokens.        *)
(***************************************************************************)
EXTENDS Integers, Sequences, FiniteSets, TLC

VARIABLES
    state,      \* browse conversation state of the user (ConversationHandler)
    fstate,     \* feedback conversation state of the user
    ctx,        \* context.user_data of the user: slot -> tagged value
    msgs,       \* messages the bot sent to the chat: id -> [text, kb, live]
    last,       \* what the handling of the last event did
    env,        \* external state read by the gating filters
    probe,      \* inputs and outputs of the keyboard builders and decoders
    starts,     \* /start commands handled so far
    limit       \* messages and /start commands explored in this run

vars == <<state, fstate, ctx, msgs, last, env, probe, starts, limit>>

(***************************************************************************)
(* Bounds of the model                                                     *)
(***************************************************************************)
MaxMsgs == 5            \* messages the bot sends in a run with one /start
MaxStarts == 2          \* /start commands of a run with restarts
MaxStaleMsgs == 2       \* messages the bot sends in a run with restarts
MaxListLen == 26        \* longest list the keyboard builder renders
MaxItemTap == 1         \* item buttons of a page the user taps (the first ones)

(***************************************************************************)
(* Program constants                                                       *)
(***************************************************************************)
ITEMS_PER_PAGE == 8
SearchLimit == 25

(***************************************************************************)
(* Python values held in user_data                                         *)
(***************************************************************************)
Absent == [t |-> "absent"]
None == [t |-> "None"]
PInt(n) == [t |-> "int", v |-> n]
PStr(s) == [t |-> "str", v |-> s]
PList(l) == [t |-> "list", v |-> l]
PMsg(m) == [t |-> "msg", v |-> m]

Truthy(x) ==
    CASE x.t = "absent" -> FALSE
      [] x.t = "None" -> FALSE
      [] x.t = "int" -> x.v # 0
      [] x.t = "str" -> x.v # <<>>
      [] x.t = "list" -> x.v # <<>>
      [] OTHER -> TRUE

IntStr == << "0", "1", "2", "3", "4", "5", "6", "7", "8", "9",
             "10", "11", "12", "13", "14", "15", "16", "17", "18", "19",
             "20", "21", "22", "23", "24", "25", "26", "27", "28", "29",
             "30", "31", "32", "33", "34", "35", "36", "37", "38", "39" >>

\* str(n) of a non-negative integer, as one token
StrOfInt(n) == IntStr[n + 1]

\* str(x) of a python value, as a token sequence
PyStr(x) ==
    CASE x.t = "None" -> <<"None">>
      [] x.t = "int" -> <<StrOfInt(x.v)>>
      [] x.t = "str" -> x.v
      [] OTHER -> <<"?">>

\* int(s) succeeds on a token sequence that is one numeral
IsIntText(s) == Len(s) = 1 /\ \E i \in 1..Len(IntStr) : IntStr[i] = s[1]
IntOfText(s) == (CHOOSE i \in 1..Len(IntStr) : IntStr[i] = s[1]) - 1

(***************************************************************************)
(* str.split / str.rsplit on token sequences                               *)
(***************************************************************************)
RECURSIVE SplitAcc(_, _, _, _)
SplitAcc(s, d, cur, acc) ==
    IF s = <<>> THEN Append(acc, cur)
    ELSE IF Head(s) = d THEN SplitAcc(Tail(s), d, <<>>, Append(acc, cur))
    ELSE SplitAcc(Tail(s), d, Append(cur, Head(s)), acc)

Split(s, d) == SplitAcc(s, d, <<>>, <<>>)

RSplit1(s, d) ==
    IF \E i \in 1..Len(s) : s[i] = d
    THEN LET i == CHOOSE j \in 1..Len(s) :
                      s[j] = d /\ \A k \in (j + 1)..Len(s) : s[k] # d
         IN << SubSeq(s, 1, i - 1), SubSeq(s, i + 1, Len(s)) >>
    ELSE << s >>

\* s[start:end] of a python list, 0-based, for 0 <= start <= end
Slice(s, start, end) ==
    IF start >= Len(s) THEN <<>>
    ELSE SubSeq(s, start + 1, IF end < Len(s) THEN end ELSE Len(s))

RECURSIVE Join(_, _)
Join(parts, d) ==
    IF parts = <<>> THEN <<>>
    ELSE IF Len(parts) = 1 THEN parts[1]
    ELSE parts[1] \o <<d>> \o Join(Tail(parts), d)


(***************************************************************************)
(* Callback payload prefixes (src/bot/constants.py)                        *)
(***************************************************************************)
COURSE_SEARCH_MODE == <<"mode_course">>
PROF_SEARCH_MODE == <<"mode_prof">>
CANCEL == <<"cancel">>
BACK_TO_MAIN == <<"back_main">>
BACK_TO_TYPING_COURSE == <<"back_type_crs">>
BACK_TO_TYPING_PROF == <<"back_type_prof">>
BACK_TO_PROF_COURSE_LIST_PREFIX == "back_prof_crs_list_"
BACK_TO_COURSE_SEARCH_LIST == <<"back_crs_srch_list">>
BACK_TO_PROF_SEARCH_LIST == <<"back_prof_srch_list">>
BACK_TO_YEAR_SEM_SELECT_PREFIX == "back_ys_sel_"
BACK_TO_COURSE_LIST_FROM_PLOT_PREFIX == "back_clp_"
VIEW_PROF_COURSES_PREFIX == "vpc_"
COURSE_SELECT_PREFIX == "cs_"
PROF_SELECT_PREFIX == "ps_"
YEAR_SEM_SELECT_PREFIX == "ysel_"
PAGE_COURSE_SEARCH_RESULTS_PREFIX == "p_csr_"
PAGE_PROF_SEARCH_RESULTS_PREFIX == "p_psr_"
PAGE_PROF_COURSE_LIST_PREFIX == "p_pcl_"
PAGE_YEAR_SEMESTER_PREFIX == "p_ys_"
FEEDBACK_TYPE_BUG == <<"fb_bug">>
FEEDBACK_TYPE_SUGGESTION == <<"fb_suggestion">>
FEEDBACK_TYPE_GENERAL == <<"fb_general">>
CONFIRM_SEND_FEEDBACK == <<"fb_confirm_send">>
CANCEL_FEEDBACK == <<"fb_cancel">>

(***************************************************************************)
(* Gateway data: a course is its index in the catalogue ordered by code,   *)
(* a professor is its id.                                                  *)
(***************************************************************************)
CourseCode(i) == <<"CRS", StrOfInt(i)>>
ProfName(i) == <<"Prof", StrOfInt(i)>>

\* the item dictionaries the gateway returns
CourseItem(i) == [code |-> CourseCode(i)]
ProfItem(i) == [id |-> i, name |-> ProfName(i)]
UniqueCourse(code) == [course_code |-> code]
Offering(code, y, s) == [course |-> code, academic_year |-> y, semester |-> s]

SemRank(s) ==
    CASE s = "Odd" -> 1
      [] s = "Even" -> 2
      [] s = "Summer" -> 3
      [] OTHER -> 99

Years == << "2021-2022", "2022-2023", "2023-2024", "2024-2025" >>
StartYear(y) ==
    CASE y = "2021-2022" -> 2021
      [] y = "2022-2023" -> 2022
      [] y = "2023-2024" -> 2023
      [] OTHER -> 2024

(***************************************************************************)
(* Keyboards (src/bot/keyboards.py): a keyboard is the sequence of its     *)
(* buttons, a button is its label kind and its callback payload.           *)
(***************************************************************************)
Btn(text, data) == [text |-> text, data |-> data]

get_start_keyboard ==
    << Btn("mode", COURSE_SEARCH_MODE), Btn("mode", PROF_SEARCH_MODE) >>

get_cancel_keyboard == << Btn("Cancel", CANCEL) >>

get_restart_keyboard == << Btn("Restart", BACK_TO_MAIN) >>

\* _add_pagination_buttons with a page one too far for Next
AddPaginationButtonsOffByOne(current_page, total_items, prefix, payload_parts) ==
    IF total_items <= ITEMS_PER_PAGE THEN <<>>
    ELSE LET total_pages == (total_items + ITEMS_PER_PAGE - 1) \div ITEMS_PER_PAGE
             payload_str == IF payload_parts # <<>>
                            THEN Join(payload_parts, "_") \o <<"_">> ELSE <<>>
         IN (IF current_page > 0
             THEN << Btn("Previous", <<prefix>> \o payload_str
                                      \o <<StrOfInt(current_page - 1)>>) >>
             ELSE <<>>)
            \o
            (IF current_page < total_pages
             THEN << Btn("Next", <<prefix>> \o payload_str
                                  \o <<StrOfInt(current_page + 1)>>) >>
             ELSE <<>>)

AddPaginationButtons(current_page, total_items, prefix, payload_parts) ==
    IF total_items <= ITEMS_PER_PAGE THEN <<>>
    ELSE LET total_pages == (total_items + ITEMS_PER_PAGE - 1) \div ITEMS_PER_PAGE
             payload_str == IF payload_parts # <<>>
                            THEN Join(payload_parts, "_") \o <<"_">> ELSE <<>>
         IN (IF current_page > 0
             THEN << Btn("Previous", <<prefix>> \o payload_str
                                      \o <<StrOfInt(current_page - 1)>>) >>
             ELSE <<>>)
            \o
            (IF current_page < total_pages - 1
             THEN << Btn("Next", <<prefix>> \o payload_str
                                  \o <<StrOfInt(current_page + 1)>>) >>
             ELSE <<>>)

create_search_results_keyboard(all_results, search_type, current_page) ==
    LET start == current_page * ITEMS_PER_PAGE
        page_items == Slice(all_results, start, start + ITEMS_PER_PAGE)
        itemBtn(item) ==
            IF search_type = "course"
            THEN Btn("item", <<COURSE_SELECT_PREFIX>> \o item.code)
            ELSE Btn("item", <<PROF_SELECT_PREFIX, StrOfInt(item.id)>>)
        pg_prefix == IF search_type = "course"
                     THEN PAGE_COURSE_SEARCH_RESULTS_PREFIX
                     ELSE PAGE_PROF_SEARCH_RESULTS_PREFIX
        back_cb == IF search_type = "course"
                   THEN BACK_TO_TYPING_COURSE ELSE BACK_TO_TYPING_PROF
    IN [i \in 1..Len(page_items) |-> itemBtn(page_items[i])]
       \o AddPaginationButtons(current_page, Len(all_results), pg_prefix, <<>>)
       \o << Btn("Re-enter", back_cb), Btn("Cancel", CANCEL) >>

create_prof_course_selection_keyboard(courses, prof_id_str, current_page) ==
    LET start == current_page * ITEMS_PER_PAGE
        HasCode(item) == "course_code" \in DOMAIN item
        page_items == SelectSeq(Slice(courses, start, start + ITEMS_PER_PAGE), HasCode)
    IN [i \in 1..Len(page_items) |->
            Btn("item", <<COURSE_SELECT_PREFIX>> \o page_items[i].course_code
                        \o <<"|", "prof", "|">> \o prof_id_str)]
       \o AddPaginationButtons(current_page, Len(courses),
                               PAGE_PROF_COURSE_LIST_PREFIX, <<prof_id_str>>)
       \o << Btn("Different Professor", BACK_TO_PROF_SEARCH_LIST),
             Btn("Cancel", CANCEL) >>

\* unique_terms: one entry per (academic_year, semester), in the order of the
\* first occurrence of the key, holding the last term with that key
SameTerm(a, b) == a.academic_year = b.academic_year /\ a.semester = b.semester

RECURSIVE PutTerm(_, _)
PutTerm(acc, t) ==
    IF acc = <<>> THEN <<t>>
    ELSE IF SameTerm(Head(acc), t) THEN <<t>> \o Tail(acc)
    ELSE <<Head(acc)>> \o PutTerm(Tail(acc), t)

RECURSIVE UniqueTermsFrom(_, _)
UniqueTermsFrom(acc, terms) ==
    IF terms = <<>> THEN acc
    ELSE IF Head(terms).academic_year = "" \/ Head(terms).semester = ""
    THEN UniqueTermsFrom(acc, Tail(terms))
    ELSE UniqueTermsFrom(PutTerm(acc, Head(terms)), Tail(terms))

UniqueTerms(terms) == UniqueTermsFrom(<<>>, terms)

\* sort key of create_year_semester_keyboard: (-start year, semester rank)
TermBefore(a, b) ==
    \/ StartYear(a.academic_year) > StartYear(b.academic_year)
    \/ /\ StartYear(a.academic_year) = StartYear(b.academic_year)
       /\ SemRank(a.semester) < SemRank(b.semester)

\* sorted(): stable insertion
RECURSIVE InsertTerm(_, _)
InsertTerm(sorted, t) ==
    IF sorted = <<>> THEN <<t>>
    ELSE IF TermBefore(t, Head(sorted)) THEN <<t>> \o sorted
    ELSE <<Head(sorted)>> \o InsertTerm(Tail(sorted), t)

RECURSIVE SortTerms(_)
SortTerms(ts) ==
    IF ts = <<>> THEN <<>>
    ELSE InsertTerm(SortTerms(SubSeq(ts, 1, Len(ts) - 1)), ts[Len(ts)])

create_year_semester_keyboard(terms, back_id, mode, current_page) ==
    LET sorted_terms == SortTerms(UniqueTerms(terms))
        start == current_page * ITEMS_PER_PAGE
        page_items == Slice(sorted_terms, start, start + ITEMS_PER_PAGE)
        back_cb == IF mode = PStr(<<"course">>)
                   THEN BACK_TO_COURSE_SEARCH_LIST
                   ELSE <<BACK_TO_PROF_COURSE_LIST_PREFIX>> \o PyStr(back_id)
    IN [i \in 1..Len(page_items) |->
            Btn("item", <<YEAR_SEM_SELECT_PREFIX, page_items[i].academic_year, "|",
                          page_items[i].semester, "|">>
                        \o PyStr(mode) \o <<"|">> \o PyStr(back_id))]
       \o AddPaginationButtons(current_page, Len(sorted_terms),
                               PAGE_YEAR_SEMESTER_PREFIX,
                               <<PyStr(mode), PyStr(back_id)>>)
       \o << Btn("Back", back_cb), Btn("Cancel", CANCEL) >>

get_final_options_keyboard(course_code, search_mode, prof_id) ==
    << Btn("Diff Year/Sem", <<BACK_TO_YEAR_SEM_SELECT_PREFIX>> \o course_code) >>
    \o (IF search_mode = PStr(<<"course">>)
        THEN << Btn("Diff Course", <<BACK_TO_COURSE_LIST_FROM_PLOT_PREFIX, "course">>) >>
        ELSE IF search_mode = PStr(<<"prof">>) /\ Truthy(prof_id)
        THEN << Btn("Diff Course", <<BACK_TO_COURSE_LIST_FROM_PLOT_PREFIX, "prof_">>
                                   \o PyStr(prof_id)) >>
        ELSE <<>>)
    \o << Btn("New Search", BACK_TO_MAIN) >>

get_dossier_keyboard(prof_id) ==
    << Btn("View Courses", <<VIEW_PROF_COURSES_PREFIX, StrOfInt(prof_id)>>),
       Btn("Different Professor", BACK_TO_PROF_SEARCH_LIST),
       Btn("New Search", BACK_TO_MAIN) >>

get_feedback_type_keyboard ==
    << Btn("fb", FEEDBACK_TYPE_BUG), Btn("fb", FEEDBACK_TYPE_SUGGESTION),
       Btn("fb", FEEDBACK_TYPE_GENERAL), Btn("Cancel", CANCEL) >>

get_feedback_entry_cancel_keyboard == << Btn("Change Type", CANCEL_FEEDBACK) >>

get_feedback_confirmation_keyboard ==
    << Btn("Send", CONFIRM_SEND_FEEDBACK), Btn("Edit", CANCEL_FEEDBACK),
       Btn("Discard", CANCEL) >>


(***************************************************************************)
(* Conversation states (src/bot/constants.py); "END" is                    *)
(* ConversationHandler.END, "KEEP" is a handler returning None.            *)
(***************************************************************************)
BrowseStates == { "SELECTING_ACTION", "TYPING_COURSE", "TYPING_PROF",
                  "SELECTING_COURSE_RESULTS", "SELECTING_PROF_RESULTS",
                  "SELECTING_COURSE_FOR_PROF", "SELECTING_YEAR_SEMESTER",
                  "SHOWING_FINAL_GRADES" }
FeedbackStates == { "ASK_FEEDBACK_TYPE", "TYPING_FEEDBACK_MESSAGE",
                    "CONFIRM_FEEDBACK_SUBMISSION" }

(***************************************************************************)
(* context.user_data                                                       *)
(***************************************************************************)
FeedbackSlots == { "feedback_type", "feedback_message" }
BrowseSlots ==
    { "original_message_id_for_edit", "search_mode", "selected_course",
      "selected_prof_id", "selected_prof_name", "selected_year",
      "selected_semester",
      "all_course_search_results", "current_course_search_page",
      "last_search_query_course",
      "all_prof_search_results", "current_prof_search_page",
      "last_search_query_prof",
      "all_prof_course_list_results", "current_prof_course_list_page",
      "unique_courses_for_selected_prof_kb",
      "all_year_semester_list_results", "current_year_semester_list_page",
      "current_ys_list_mode", "current_ys_list_identifier",
      "last_bot_message_obj", "final_plot_message_obj" }
Slots == BrowseSlots \cup FeedbackSlots

EmptyCtx == [k \in Slots |-> Absent]

\* user_data.get(k) and user_data.get(k, d)
Get(c, k) == IF c[k].t = "absent" THEN None ELSE c[k]
GetD(c, k, d) == IF c[k].t = "absent" THEN d ELSE c[k]
IsNone(x) == x.t = "None" \/ x.t = "absent"

\* the slots _clear_list_context pops (slots no handler writes are left out)
ListSlots(list_type) ==
    CASE list_type = "course_search" ->
            { "all_course_search_results", "current_course_search_page",
              "last_search_query_course" }
      [] list_type = "prof_search" ->
            { "all_prof_search_results", "current_prof_search_page",
              "last_search_query_prof" }
      [] list_type = "prof_course_list" ->
            { "all_prof_course_list_results", "current_prof_course_list_page",
              "unique_courses_for_selected_prof_kb" }
      [] OTHER ->
            { "all_year_semester_list_results", "current_year_semester_list_page" }

(***************************************************************************)
(* A handler run works on a record w = [c, m, out]: the user_data, the     *)
(* messages of the chat and the outbound operations issued so far.         *)
(***************************************************************************)
NoKb == <<>>

SetC(w, k, v) == [w EXCEPT !.c = [@ EXCEPT ![k] = v]]
PopC(w, ks) == [w EXCEPT !.c = [k \in Slots |-> IF k \in ks THEN Absent ELSE @[k]]]
ClearC(w) == [w EXCEPT !.c = EmptyCtx]
clear_list_context(w, list_type) == PopC(w, ListSlots(list_type))

Send(w, text, kb) ==
    [w EXCEPT !.m = Append(@, [text |-> text, kb |-> kb, live |-> TRUE]),
              !.out = Append(@, [op |-> "send", text |-> text, msg |-> Len(w.m) + 1])]

\* an edit or delete of a message succeeds while the message exists
CanEdit(w, id) == id \in 1..Len(w.m) /\ w.m[id].live

Edit(w, id, text, kb) ==
    [w EXCEPT !.m = [@ EXCEPT ![id] = [text |-> text, kb |-> kb, live |-> TRUE]],
              !.out = Append(@, [op |-> "edit", text |-> text, msg |-> id])]

EditMarkup(w, id, kb) ==
    [w EXCEPT !.m = [@ EXCEPT ![id].kb = kb],
              !.out = Append(@, [op |-> "edit_markup", text |-> w.m[id].text, msg |-> id])]

Delete(w, id) ==
    [w EXCEPT !.m = [@ EXCEPT ![id] = [text |-> "deleted", kb |-> NoKb, live |-> FALSE]],
              !.out = Append(@, [op |-> "delete", text |-> "deleted", msg |-> id])]

Ret(st, w, trace) ==
    [st |-> st, c |-> w.c, m |-> w.m, out |-> w.out, trace |-> trace]

\* _handle_api_error_async: edit the message when an id is given and the
\* edit succeeds, else send a new message; always with the restart keyboard
handle_api_error(w, text, message_id_to_edit) ==
    IF Truthy(message_id_to_edit) /\ CanEdit(w, message_id_to_edit.v)
    THEN Edit(w, message_id_to_edit.v, text, get_restart_keyboard)
    ELSE Send(w, text, get_restart_keyboard)

disable_previous_plot_buttons(w) ==
    LET plot_message == Get(w.c, "final_plot_message_obj")
        w1 == PopC(w, {"final_plot_message_obj"})
    IN IF Truthy(plot_message) /\ CanEdit(w1, plot_message.v)
       THEN EditMarkup(w1, plot_message.v, NoKb)
       ELSE w1

(***************************************************************************)
(* Handlers of the browse flow (src/bot/handlers.py)                       *)
(***************************************************************************)
\* start_command: only the message handle is replaced, the other slots stay
start_command(w, ev) ==
    LET w1 == PopC(w, {"original_message_id_for_edit"})
        w2 == Send(w1, "start_prompt", get_start_keyboard)
        w3 == SetC(w2, "original_message_id_for_edit", PInt(Len(w2.m)))
    IN Ret("SELECTING_ACTION", w3, <<"start_command">>)

select_search_mode_callback(w, ev) ==
    LET message_id_to_edit == Get(w.c, "original_message_id_for_edit")
        w1 == IF Truthy(message_id_to_edit)
              THEN SetC(ClearC(w), "original_message_id_for_edit", message_id_to_edit)
              ELSE ClearC(w)
        mode == IF ev.data = COURSE_SEARCH_MODE THEN "course" ELSE "prof"
        w2 == SetC(w1, "search_mode", PStr(<<mode>>))
        name == <<"select_search_mode_callback">>
    IN IF ~Truthy(message_id_to_edit)
       THEN Ret("END", handle_api_error(w1, "error_value", message_id_to_edit), name)
       ELSE IF ~CanEdit(w2, message_id_to_edit.v)
       THEN Ret("END", handle_api_error(w2, "error_unexpected", message_id_to_edit), name)
       ELSE Ret(IF mode = "course" THEN "TYPING_COURSE" ELSE "TYPING_PROF",
                Edit(w2, message_id_to_edit.v,
                     IF mode = "course" THEN "prompt_course" ELSE "prompt_prof",
                     get_cancel_keyboard),
                name)

\* the query texts the user types, by length after strip()
TextLen(t) ==
    CASE t = "q1" -> 1
      [] t = " q " -> 1
      [] t = "q2" -> 2
      [] OTHER -> 3

\* edit the prompt message, or send a new one and remember it when the
\* prompt is unknown or the edit fails
EditOrSendPrompt(w, id, text, kb) ==
    IF Truthy(id) /\ CanEdit(w, id.v)
    THEN Edit(w, id.v, text, kb)
    ELSE LET w1 == Send(w, text, kb)
         IN SetC(w1, "original_message_id_for_edit", PInt(Len(w1.m)))

\* _handle_search_text_input without its length check
handle_search_text_input_unchecked(w, ev, search_type, results) ==
    LET list_type_key == IF search_type = "course" THEN "course_search" ELSE "prof_search"
        id0 == Get(w.c, "original_message_id_for_edit")
        ws == EditOrSendPrompt(w, id0, "searching", NoKb)
        id == Get(ws.c, "original_message_id_for_edit")
        w1 == clear_list_context(ws, list_type_key)
        w2 == SetC(w1, "all_" \o list_type_key \o "_results", results)
        w3 == SetC(w2, "current_" \o list_type_key \o "_page", PInt(0))
        w4 == SetC(w3, "last_search_query_" \o search_type, PStr(<<ev.text>>))
    IN IF ~Truthy(results)
       THEN Ret(IF search_type = "course" THEN "TYPING_COURSE" ELSE "TYPING_PROF",
                Edit(ws, id.v, "no_results", get_cancel_keyboard),
                <<"handle_search_text_input">>)
       ELSE Ret(IF search_type = "course" THEN "SELECTING_COURSE_RESULTS"
                ELSE "SELECTING_PROF_RESULTS",
                Edit(w4, id.v, "results_" \o search_type,
                     create_search_results_keyboard(results.v, search_type, 0)),
                <<"handle_search_text_input">>)

\* _handle_search_text_input; results is what search_items_api returned
handle_search_text_input(w, ev, search_type, results) ==
    LET min_len == IF search_type = "course" THEN 2 ELSE 3
        current_typing_state == IF search_type = "course"
                                THEN "TYPING_COURSE" ELSE "TYPING_PROF"
        success_listing_state == IF search_type = "course"
                                 THEN "SELECTING_COURSE_RESULTS"
                                 ELSE "SELECTING_PROF_RESULTS"
        list_type_key == IF search_type = "course"
                         THEN "course_search" ELSE "prof_search"
        id0 == Get(w.c, "original_message_id_for_edit")
        name == <<"handle_search_text_input">>
        ws == EditOrSendPrompt(w, id0, "searching", NoKb)
        id == Get(ws.c, "original_message_id_for_edit")
    IN IF TextLen(ev.text) < min_len
       THEN Ret(current_typing_state,
                EditOrSendPrompt(w, id0, "min_len", get_cancel_keyboard), name)
       ELSE IF ~Truthy(results)
       THEN Ret(current_typing_state,
                Edit(ws, id.v, "no_results", get_cancel_keyboard), name)
       ELSE LET w1 == clear_list_context(ws, list_type_key)
                w2 == SetC(w1, "all_" \o list_type_key \o "_results", results)
                w3 == SetC(w2, "current_" \o list_type_key \o "_page", PInt(0))
                w4 == SetC(w3, "last_search_query_" \o search_type, PStr(<<ev.text>>))
            IN Ret(success_listing_state,
                   Edit(w4, id.v, "results_" \o search_type,
                        create_search_results_keyboard(results.v, search_type, 0)),
                   name)


\* o.get('course', {}).get('code') == selected_course_code
RECURSIVE OfferingsOfCourse(_, _)
OfferingsOfCourse(offerings, code) ==
    IF offerings = <<>> THEN <<>>
    ELSE IF Head(offerings).course = code
    THEN <<Head(offerings)>> \o OfferingsOfCourse(Tail(offerings), code)
    ELSE OfferingsOfCourse(Tail(offerings), code)

\* the name of the professor in the cached search results, else "ID n"
RECURSIVE NameInResults(_, _, _)
NameInResults(items, id, fallback) ==
    IF items = <<>> THEN fallback
    ELSE IF Head(items).id = id THEN Head(items).name
    ELSE NameInResults(Tail(items), id, fallback)

IdName(idText) == <<"ID ">> \o idText

\* select_item_callback's course branch without the comparison of the
\* professor id of the payload with the selected one
select_course_trusting_payload(w0, ev, terms_api) ==
    LET name == <<"select_item_callback">>
        parts == Split(Tail(ev.data), "|")
        selected_course_code == parts[1]
        w1 == SetC(w0, "selected_course", PStr(selected_course_code))
        is_prof_flow == Len(parts) > 2 /\ parts[2] = <<"prof">>
        search_mode == Get(w1.c, "search_mode")
        prof_id == Get(w1.c, "selected_prof_id")
        inProf == search_mode = PStr(<<"prof">>)
        identifier == IF inProf THEN PStr(PyStr(prof_id)) ELSE PStr(selected_course_code)
        fail(w) == Ret("END", handle_api_error(w, "error_value",
                                 Get(w.c, "original_message_id_for_edit")), name)
        w2 == Edit(w1, ev.msg, "fetching_terms", NoKb)
        all_offerings_for_prof == Get(w2.c, "all_prof_course_list_results")
        terms == IF inProf
                 THEN PList(OfferingsOfCourse(all_offerings_for_prof.v, selected_course_code))
                 ELSE terms_api
    IN IF inProf /\ ~Truthy(prof_id) THEN fail(w1)
       ELSE IF inProf /\ ~Truthy(all_offerings_for_prof) THEN fail(w2)
       ELSE IF ~Truthy(terms)
       THEN LET toProf == inProf /\ w2.c["selected_prof_id"].t # "absent"
                kb == (IF toProf
                       THEN << Btn("Back", <<BACK_TO_PROF_COURSE_LIST_PREFIX>>
                                            \o PyStr(w2.c["selected_prof_id"])) >>
                       ELSE IF search_mode = PStr(<<"course">>)
                       THEN << Btn("Back", BACK_TO_COURSE_SEARCH_LIST) >>
                       ELSE <<>>)
                      \o << Btn("New Search", BACK_TO_MAIN) >>
            IN Ret(IF toProf THEN "SELECTING_COURSE_FOR_PROF"
                   ELSE "SELECTING_COURSE_RESULTS",
                   Edit(w2, ev.msg, "no_offerings", kb), name)
       ELSE LET w3 == SetC(w2, "all_year_semester_list_results", terms)
                w4 == SetC(w3, "current_year_semester_list_page", PInt(0))
                w5 == SetC(w4, "current_ys_list_mode", search_mode)
                w6 == SetC(w5, "current_ys_list_identifier", identifier)
            IN Ret("SELECTING_YEAR_SEMESTER",
                   Edit(w6, ev.msg, "year_semester_list",
                        create_year_semester_keyboard(terms.v, identifier, search_mode, 0)),
                   name)

\* select_item_callback, branch cs_; terms_api is what
\* get_offerings_for_course_api returned
select_course(w0, ev, terms_api) ==
    LET name == <<"select_item_callback">>
        parts == Split(Tail(ev.data), "|")
        selected_course_code == parts[1]
        w1 == SetC(w0, "selected_course", PStr(selected_course_code))
        is_prof_flow == Len(parts) > 2 /\ parts[2] = <<"prof">>
        search_mode == Get(w1.c, "search_mode")
        prof_id == Get(w1.c, "selected_prof_id")
        inProf == search_mode = PStr(<<"prof">>)
        identifier == IF inProf THEN PStr(PyStr(prof_id)) ELSE PStr(selected_course_code)
        fail(w) == Ret("END", handle_api_error(w, "error_value",
                                 Get(w.c, "original_message_id_for_edit")), name)
        w2 == Edit(w1, ev.msg, "fetching_terms", NoKb)
        all_offerings_for_prof == Get(w2.c, "all_prof_course_list_results")
        terms == IF inProf
                 THEN PList(OfferingsOfCourse(all_offerings_for_prof.v, selected_course_code))
                 ELSE terms_api
    IN IF is_prof_flow /\ PyStr(prof_id) # parts[3] THEN fail(w1)
       ELSE IF inProf /\ ~Truthy(prof_id) THEN fail(w1)
       ELSE IF inProf /\ ~Truthy(all_offerings_for_prof) THEN fail(w2)
       ELSE IF ~Truthy(terms)
       THEN LET toProf == inProf /\ w2.c["selected_prof_id"].t # "absent"
                kb == (IF toProf
                       THEN << Btn("Back", <<BACK_TO_PROF_COURSE_LIST_PREFIX>>
                                            \o PyStr(w2.c["selected_prof_id"])) >>
                       ELSE IF search_mode = PStr(<<"course">>)
                       THEN << Btn("Back", BACK_TO_COURSE_SEARCH_LIST) >>
                       ELSE <<>>)
                      \o << Btn("New Search", BACK_TO_MAIN) >>
            IN Ret(IF toProf THEN "SELECTING_COURSE_FOR_PROF"
                   ELSE "SELECTING_COURSE_RESULTS",
                   Edit(w2, ev.msg, "no_offerings", kb), name)
       ELSE LET w3 == SetC(w2, "all_year_semester_list_results", terms)
                w4 == SetC(w3, "current_year_semester_list_page", PInt(0))
                w5 == SetC(w4, "current_ys_list_mode", search_mode)
                w6 == SetC(w5, "current_ys_list_identifier", identifier)
            IN Ret("SELECTING_YEAR_SEMESTER",
                   Edit(w6, ev.msg, "year_semester_list",
                        create_year_semester_keyboard(terms.v, identifier, search_mode, 0)),
                   name)

\* select_item_callback, branch ps_; dossier_ok is whether
\* get_professor_dossier_api returned data
select_prof(w0, ev, dossier_ok) ==
    LET name == <<"select_item_callback">>
        selected_prof_id == IntOfText(Tail(ev.data))
        w1 == SetC(w0, "selected_prof_id", PInt(selected_prof_id))
        w2 == SetC(w1, "search_mode", PStr(<<"prof">>))
        all_prof_results == GetD(w2.c, "all_prof_search_results", PList(<<>>))
        prof_name == NameInResults(all_prof_results.v, selected_prof_id,
                                   IdName(<<StrOfInt(selected_prof_id)>>))
        w3 == SetC(w2, "selected_prof_name", PStr(prof_name))
        w4 == Edit(w3, ev.msg, "fetching_dossier", NoKb)
    IN IF ~dossier_ok
       THEN Ret("END", handle_api_error(w4, "error_value",
                           Get(w4.c, "original_message_id_for_edit")), name)
       ELSE Ret("SELECTING_COURSE_FOR_PROF",
                Send(Delete(w4, ev.msg), "dossier", get_dossier_keyboard(selected_prof_id)),
                name)

select_item_callback(w, ev, terms_api, dossier_ok) ==
    LET isProf == Head(ev.data) = PROF_SELECT_PREFIX
        w1 == PopC(w, {"selected_year", "selected_semester"})
        w2 == clear_list_context(w1, "year_semester_list")
        w3 == PopC(w2, {"last_bot_message_obj"})
        w4 == IF isProf
              THEN clear_list_context(PopC(w3, {"selected_course"}), "prof_course_list")
              ELSE w3
        w5 == SetC(w4, "original_message_id_for_edit", PInt(ev.msg))
    IN IF isProf THEN select_prof(w5, ev, dossier_ok)
       ELSE select_course(w5, ev, terms_api)

\* the deduplicated courses of a professor's offerings, in list order
RECURSIVE UniqueCourses(_, _)
UniqueCourses(offerings, seen) ==
    IF offerings = <<>> THEN <<>>
    ELSE IF Head(offerings).course \in seen
    THEN UniqueCourses(Tail(offerings), seen)
    ELSE <<UniqueCourse(Head(offerings).course)>>
         \o UniqueCourses(Tail(offerings), seen \cup {Head(offerings).course})

\* view_prof_courses_callback; prof_offerings_raw is what
\* get_offerings_for_prof_api returned
view_prof_courses_callback(w, ev, prof_offerings_raw) ==
    LET name == <<"view_prof_courses_callback">>
        prof_id == IntOfText(Tail(ev.data))
        w1 == SetC(w, "selected_prof_id", PInt(prof_id))
        w2 == EditMarkup(w1, ev.msg, NoKb)
        w3 == SetC(w2, "all_prof_course_list_results", prof_offerings_raw)
    IN IF ~Truthy(prof_offerings_raw)
       THEN Ret("SELECTING_COURSE_FOR_PROF", Send(w3, "no_prof_offerings", NoKb), name)
       ELSE LET unique == UniqueCourses(prof_offerings_raw.v, {})
                w4 == SetC(w3, "unique_courses_for_selected_prof_kb", PList(unique))
                w5 == SetC(w4, "current_prof_course_list_page", PInt(0))
            IN Ret("SELECTING_COURSE_FOR_PROF",
                   Send(w5, "prof_course_list",
                        create_prof_course_selection_keyboard(
                            unique, <<StrOfInt(prof_id)>>, 0)),
                   name)

\* the retry keyboard of select_year_semester_callback
RetryKeyboard(c, course_code) ==
    create_year_semester_keyboard(
        GetD(c, "all_year_semester_list_results", PList(<<>>)).v,
        GetD(c, "current_ys_list_identifier", PStr(course_code)),
        GetD(c, "current_ys_list_mode", PStr(<<"course">>)),
        GetD(c, "current_year_semester_list_page", PInt(0)).v)

\* display_grades_and_plot; plot tells how it goes: "ok", "bad_data" (the
\* grade payload lacks a field, nothing was touched yet) or "send_failed" (the
\* list message is deleted, then send_photo fails).  Every failure is caught
\* and reported with handle_api_error on a new message.
PlotOutcomes == { "ok", "bad_data", "send_failed" }

display_grades_and_plot(w, ev, plot) ==
    LET keyboard == get_final_options_keyboard(Get(w.c, "selected_course").v,
                        Get(w.c, "search_mode"), Get(w.c, "selected_prof_id"))
        w1 == Delete(w, ev.msg)
        w2 == Send(w1, "grades_plot", keyboard)
    IN CASE plot = "ok" -> SetC(w2, "final_plot_message_obj", PMsg(Len(w2.m)))
         [] plot = "bad_data" -> handle_api_error(w, "error_unexpected", None)
         [] OTHER -> handle_api_error(w1, "error_unexpected", None)

\* select_year_semester_callback with display_grades_and_plot; details_ok and
\* grades_ok are whether the two gateway calls returned a record
select_year_semester_callback(w, ev, details_ok, grades_ok, plot) ==
    LET name == <<"select_year_semester_callback">>
        w1 == SetC(w, "last_bot_message_obj", PMsg(ev.msg))
        w2 == SetC(w1, "original_message_id_for_edit", PInt(ev.msg))
        parts == Split(Tail(ev.data), "|")
        w3 == SetC(w2, "selected_year", PStr(parts[1]))
        w4 == SetC(w3, "selected_semester", PStr(parts[2]))
        course_code == Get(w4.c, "selected_course")
        fail(x) == Ret("END", handle_api_error(x, "error_value",
                                 Get(x.c, "original_message_id_for_edit")), name)
        w5 == Edit(w4, ev.msg, "fetching_details", NoKb)
    IN IF Len(parts) # 4 THEN fail(w2)
       ELSE IF ~Truthy(course_code) THEN fail(w4)
       ELSE IF ~details_ok
       THEN Ret("SELECTING_YEAR_SEMESTER",
                Edit(w5, ev.msg, "no_record", RetryKeyboard(w5.c, course_code.v)), name)
       ELSE IF ~grades_ok
       THEN Ret("SELECTING_YEAR_SEMESTER",
                Edit(w5, ev.msg, "no_grades", RetryKeyboard(w5.c, course_code.v)), name)
       ELSE Ret("SHOWING_FINAL_GRADES", display_grades_and_plot(w5, ev, plot), name)


\* _handle_pagination_callback asking the gateway again instead of reading
\* the cached list: the answer has lost its first entry in between
handle_pagination_callback_refetching(w, ev, list_type_key, page_data_parts, current_listing_state, expected_cb_parts_len) ==
    LET slot == "all_" \o list_type_key \o "_results"
        fresh == IF Truthy(Get(w.c, slot)) THEN PList(Tail(w.c[slot].v)) ELSE Get(w.c, slot)
        w1 == PopC(w, {"unique_courses_for_selected_prof_kb"})
        w2 == SetC(w1, "current_" \o list_type_key \o "_page",
                   PInt(IntOfText(page_data_parts[Len(page_data_parts)])))
        kb == CASE list_type_key = "course_search" ->
                      create_search_results_keyboard(fresh.v, "course", w2.c["current_course_search_page"].v)
                [] list_type_key = "prof_search" ->
                      create_search_results_keyboard(fresh.v, "prof", w2.c["current_prof_search_page"].v)
                [] OTHER -> <<>>
    IN IF list_type_key \in {"course_search", "prof_search"} /\ Truthy(fresh)
       THEN Ret(current_listing_state, Edit(SetC(w2, slot, fresh), ev.msg, list_type_key, kb),
                <<"handle_pagination_callback">>)
       ELSE Ret("END", handle_api_error(w, "error_value", PInt(ev.msg)),
                <<"handle_pagination_callback">>)

\* _handle_pagination_callback
handle_pagination_callback(w, ev, list_type_key, page_data_parts, current_listing_state, expected_cb_parts_len) ==
    LET name == <<"handle_pagination_callback">>
        w1 == SetC(w, "original_message_id_for_edit", PInt(ev.msg))
        fail(x, text) == Ret("END", handle_api_error(x, text, PInt(ev.msg)), name)
        pageText == page_data_parts[Len(page_data_parts)]
        new_page == IntOfText(pageText)
        all_results_primary == Get(w1.c, "all_" \o list_type_key \o "_results")
        all_results_for_keyboard ==
            IF list_type_key = "prof_course_list"
            THEN GetD(w1.c, "unique_courses_for_selected_prof_kb", all_results_primary)
            ELSE all_results_primary
        w2 == SetC(w1, "current_" \o list_type_key \o "_page", PInt(new_page))
        new_keyboard ==
            CASE list_type_key = "course_search" ->
                    create_search_results_keyboard(all_results_for_keyboard.v,
                                                   "course", new_page)
              [] list_type_key = "prof_search" ->
                    create_search_results_keyboard(all_results_for_keyboard.v,
                                                   "prof", new_page)
              [] list_type_key = "prof_course_list" ->
                    create_prof_course_selection_keyboard(all_results_for_keyboard.v,
                                                          page_data_parts[1], new_page)
              [] OTHER ->
                    create_year_semester_keyboard(all_results_primary.v,
                                                  PStr(page_data_parts[2]),
                                                  PStr(page_data_parts[1]), new_page)
    IN IF Len(page_data_parts) # expected_cb_parts_len THEN fail(w1, "error_value")
       ELSE IF ~IsIntText(pageText) THEN fail(w1, "error_value")
       ELSE IF IsNone(all_results_primary) THEN fail(w1, "error_value")
       ELSE IF IsNone(all_results_for_keyboard) THEN fail(w1, "error_value")
       ELSE Ret(current_listing_state,
                Edit(w2, ev.msg, list_type_key, new_keyboard), name)

Chain(name, r) == [r EXCEPT !.trace = <<name>> \o @]

page_course_search_results_callback(w, ev) ==
    Chain("page_course_search_results_callback",
          handle_pagination_callback(w, ev, "course_search", <<Tail(ev.data)>>,
                                     "SELECTING_COURSE_RESULTS", 1))

page_prof_search_results_callback(w, ev) ==
    Chain("page_prof_search_results_callback",
          handle_pagination_callback(w, ev, "prof_search", <<Tail(ev.data)>>,
                                     "SELECTING_PROF_RESULTS", 1))

page_prof_course_list_callback(w, ev) ==
    LET parts == RSplit1(Tail(ev.data), "_")
    IN IF Len(parts) # 2
       THEN Ret("END", w, <<"page_prof_course_list_callback">>)
       ELSE Chain("page_prof_course_list_callback",
                  handle_pagination_callback(w, ev, "prof_course_list", parts,
                                             "SELECTING_COURSE_FOR_PROF", 2))

page_year_semester_list_callback(w, ev) ==
    LET parts == Split(Tail(ev.data), "_")
    IN IF Len(parts) # 3
       THEN Ret("END", w, <<"page_year_semester_list_callback">>)
       ELSE Chain("page_year_semester_list_callback",
                  handle_pagination_callback(w, ev, "year_semester_list", parts,
                                             "SELECTING_YEAR_SEMESTER", 3))

(***************************************************************************)
(* Back handlers                                                           *)
(***************************************************************************)
back_to_main_callback(w, ev) ==
    LET w1 == disable_previous_plot_buttons(w)
        w2 == IF CanEdit(w1, ev.msg) /\ w1.m[ev.msg].kb # NoKb
              THEN EditMarkup(w1, ev.msg, NoKb) ELSE w1
        w3 == ClearC(w2)
        w4 == Send(w3, "start_prompt", get_start_keyboard)
        w5 == SetC(w4, "original_message_id_for_edit", PInt(Len(w4.m)))
    IN Ret("SELECTING_ACTION", w5, <<"back_to_main_callback">>)

YsSlots == { "last_bot_message_obj", "current_ys_list_mode",
             "current_ys_list_identifier" }

back_to_typing_course_callback(w, ev) ==
    LET w1 == clear_list_context(w, "course_search")
        w2 == clear_list_context(PopC(w1, {"selected_course"}), "year_semester_list")
        w3 == PopC(w2, {"selected_year", "selected_semester"} \cup YsSlots)
        w4 == SetC(w3, "search_mode", PStr(<<"course">>))
        w5 == SetC(w4, "original_message_id_for_edit", PInt(ev.msg))
        name == <<"back_to_typing_course_callback">>
    IN IF CanEdit(w5, ev.msg)
       THEN Ret("TYPING_COURSE", Edit(w5, ev.msg, "prompt_course", get_cancel_keyboard), name)
       ELSE Ret("END", handle_api_error(w5, "error_unexpected", PInt(ev.msg)), name)

back_to_typing_prof_callback(w, ev) ==
    LET w1 == clear_list_context(clear_list_context(w, "prof_search"), "prof_course_list")
        w2 == PopC(w1, {"selected_prof_id", "selected_prof_name", "selected_course"})
        w3 == clear_list_context(w2, "year_semester_list")
        w4 == PopC(w3, {"selected_year", "selected_semester"} \cup YsSlots)
        w5 == SetC(w4, "search_mode", PStr(<<"prof">>))
        w6 == SetC(w5, "original_message_id_for_edit", PInt(ev.msg))
        name == <<"back_to_typing_prof_callback">>
    IN IF CanEdit(w6, ev.msg)
       THEN Ret("TYPING_PROF", Edit(w6, ev.msg, "prompt_prof", get_cancel_keyboard), name)
       ELSE Ret("END", handle_api_error(w6, "error_unexpected", PInt(ev.msg)), name)

back_to_course_search_list_callback(w, ev) ==
    LET name == "back_to_course_search_list_callback"
        all_results == Get(w.c, "all_course_search_results")
        page == GetD(w.c, "current_course_search_page", PInt(0))
        w1 == SetC(w, "original_message_id_for_edit", PInt(ev.msg))
        w2 == clear_list_context(PopC(w1, {"selected_course"}), "year_semester_list")
        w3 == PopC(w2, YsSlots)
        keyboard == create_search_results_keyboard(all_results.v, "course", page.v)
    IN IF IsNone(all_results)
       THEN Chain(name, back_to_typing_course_callback(w1, ev))
       ELSE Ret("SELECTING_COURSE_RESULTS",
                Edit(w3, ev.msg, "results_course", keyboard), <<name>>)

\* back_to_prof_search_list_callback falling back, when the professor
\* results are missing, to the course results instead of the name prompt
back_to_prof_search_list_via_course_list(w, ev) ==
    LET name == "back_to_prof_search_list_callback"
        all_results == Get(w.c, "all_prof_search_results")
        page == GetD(w.c, "current_prof_search_page", PInt(0))
        w1 == SetC(w, "original_message_id_for_edit", PInt(ev.msg))
        w2 == PopC(w1, {"selected_prof_id", "selected_prof_name"})
        w3 == clear_list_context(w2, "prof_course_list")
        w4 == clear_list_context(PopC(w3, {"selected_course"}), "year_semester_list")
        w5 == PopC(w4, YsSlots)
        keyboard == create_search_results_keyboard(all_results.v, "prof", page.v)
        w6 == Send(Delete(w5, ev.msg), "results_prof", keyboard)
        w7 == SetC(w6, "original_message_id_for_edit", PInt(Len(w6.m)))
    IN IF IsNone(all_results)
       THEN Chain(name, back_to_course_search_list_callback(w1, ev))
       ELSE Ret("SELECTING_PROF_RESULTS", w7, <<name>>)

back_to_prof_search_list_callback(w, ev) ==
    LET name == "back_to_prof_search_list_callback"
        all_results == Get(w.c, "all_prof_search_results")
        page == GetD(w.c, "current_prof_search_page", PInt(0))
        w1 == SetC(w, "original_message_id_for_edit", PInt(ev.msg))
        w2 == PopC(w1, {"selected_prof_id", "selected_prof_name"})
        w3 == clear_list_context(w2, "prof_course_list")
        w4 == clear_list_context(PopC(w3, {"selected_course"}), "year_semester_list")
        w5 == PopC(w4, YsSlots)
        keyboard == create_search_results_keyboard(all_results.v, "prof", page.v)
        w6 == Send(Delete(w5, ev.msg), "results_prof", keyboard)
        w7 == SetC(w6, "original_message_id_for_edit", PInt(Len(w6.m)))
    IN IF IsNone(all_results)
       THEN Chain(name, back_to_typing_prof_callback(w1, ev))
       ELSE Ret("SELECTING_PROF_RESULTS", w7, <<name>>)

\* back_to_prof_courses_callback showing the first page of the course list
\* whatever the stored cursor
back_to_prof_courses_first_page(w, ev) ==
    LET name == "back_to_prof_courses_callback"
        w1 == SetC(w, "original_message_id_for_edit", PInt(ev.msg))
        prof_id_str == Tail(ev.data)
        all_unique_courses == Get(w1.c, "unique_courses_for_selected_prof_kb")
        w2 == clear_list_context(PopC(w1, {"selected_course"}), "year_semester_list")
        w3 == PopC(w2, YsSlots)
        keyboard == create_prof_course_selection_keyboard(
                        all_unique_courses.v, prof_id_str, 0)
    IN IF ~IsIntText(prof_id_str)
       THEN Chain(name, back_to_main_callback(w1, ev))
       ELSE IF Get(w1.c, "selected_prof_id") # PInt(IntOfText(prof_id_str))
       THEN Chain(name, back_to_typing_prof_callback(w1, ev))
       ELSE IF ~Truthy(all_unique_courses)
       THEN Chain(name, back_to_prof_search_list_callback(w1, ev))
       ELSE Ret("SELECTING_COURSE_FOR_PROF",
                Edit(w3, ev.msg, "prof_course_list", keyboard), <<name>>)

back_to_prof_courses_callback(w, ev) ==
    LET name == "back_to_prof_courses_callback"
        w1 == SetC(w, "original_message_id_for_edit", PInt(ev.msg))
        prof_id_str == Tail(ev.data)
        all_unique_courses == Get(w1.c, "unique_courses_for_selected_prof_kb")
        page == GetD(w1.c, "current_prof_course_list_page", PInt(0))
        w2 == clear_list_context(PopC(w1, {"selected_course"}), "year_semester_list")
        w3 == PopC(w2, YsSlots)
        keyboard == create_prof_course_selection_keyboard(
                        all_unique_courses.v, prof_id_str, page.v)
    IN IF ~IsIntText(prof_id_str)
       THEN Chain(name, back_to_main_callback(w1, ev))
       ELSE IF Get(w1.c, "selected_prof_id") # PInt(IntOfText(prof_id_str))
       THEN Chain(name, back_to_typing_prof_callback(w1, ev))
       ELSE IF ~Truthy(all_unique_courses)
       THEN Chain(name, back_to_prof_search_list_callback(w1, ev))
       ELSE Ret("SELECTING_COURSE_FOR_PROF",
                Edit(w3, ev.msg, "prof_course_list", keyboard), <<name>>)

back_to_course_list_from_plot_callback(w, ev) ==
    LET name == <<"back_to_course_list_from_plot_callback">>
        w1 == disable_previous_plot_buttons(w)
        payload == Tail(ev.data)
        expired == Ret("END", Send(w1, "expired", NoKb), name)
        all_unique_courses == Get(w1.c, "unique_courses_for_selected_prof_kb")
        pcl_page == GetD(w1.c, "current_prof_course_list_page", PInt(0))
        all_results == Get(w1.c, "all_course_search_results")
        cs_page == GetD(w1.c, "current_course_search_page", PInt(0))
    IN IF Head(payload) = "prof_"
       THEN IF ~Truthy(all_unique_courses) THEN expired
            ELSE Ret("SELECTING_COURSE_FOR_PROF",
                     Send(w1, "prof_course_list",
                          create_prof_course_selection_keyboard(
                              all_unique_courses.v, Tail(payload), pcl_page.v)),
                     name)
       ELSE IF payload = <<"course">>
       THEN IF ~Truthy(all_results) THEN expired
            ELSE Ret("SELECTING_COURSE_RESULTS",
                     Send(w1, "results_course",
                          create_search_results_keyboard(all_results.v, "course", cs_page.v)),
                     name)
       ELSE expired

back_to_year_sem_select_callback(w, ev) ==
    LET name == <<"back_to_year_sem_select_callback">>
        w1 == disable_previous_plot_buttons(w)
        course_code == Get(w1.c, "selected_course")
        all_terms_data == Get(w1.c, "all_year_semester_list_results")
        search_mode == Get(w1.c, "current_ys_list_mode")
        identifier == Get(w1.c, "current_ys_list_identifier")
        page == GetD(w1.c, "current_year_semester_list_page", PInt(0))
    IN IF ~(Truthy(course_code) /\ Truthy(all_terms_data) /\ Truthy(search_mode)
            /\ ~IsNone(identifier))
       THEN Ret("END", Send(w1, "expired", NoKb), name)
       ELSE Ret("SELECTING_YEAR_SEMESTER",
                Send(w1, "year_semester_list",
                     create_year_semester_keyboard(all_terms_data.v, identifier,
                                                   search_mode, page.v)),
                name)

\* cancel_conversation without its last statement, user_data.clear()
cancel_conversation_keeping_context(w, ev) ==
    LET w1 == disable_previous_plot_buttons(w)
        w2 == IF ev.kind = "cb"
              THEN IF CanEdit(w1, ev.msg) THEN Edit(w1, ev.msg, "cancelled", NoKb)
                   ELSE Send(w1, "cancelled", NoKb)
              ELSE Send(w1, "cancelled", NoKb)
    IN Ret("END", w2, <<"cancel_conversation">>)

\* cancel_conversation: a button edits its message, the command replies
cancel_conversation(w, ev) ==
    LET w1 == disable_previous_plot_buttons(w)
        w2 == IF ev.kind = "cb"
              THEN IF CanEdit(w1, ev.msg) THEN Edit(w1, ev.msg, "cancelled", NoKb)
                   ELSE Send(w1, "cancelled", NoKb)
              ELSE Send(w1, "cancelled", NoKb)
    IN Ret("END", ClearC(w2), <<"cancel_conversation">>)


(***************************************************************************)
(* Handlers of the feedback flow                                           *)
(***************************************************************************)
feedback_start_command(w, ev) ==
    Ret("ASK_FEEDBACK_TYPE",
        Send(PopC(w, FeedbackSlots), "ask_feedback_type", get_feedback_type_keyboard),
        <<"feedback_start_command">>)

feedback_type_callback(w, ev) ==
    Ret("TYPING_FEEDBACK_MESSAGE",
        Edit(SetC(w, "feedback_type", PStr(ev.data)), ev.msg,
             "type_feedback", get_feedback_entry_cancel_keyboard),
        <<"feedback_type_callback">>)

feedback_message_handler(w, ev) ==
    Ret("CONFIRM_FEEDBACK_SUBMISSION",
        Send(SetC(w, "feedback_message", PStr(<<ev.text>>)),
             "confirm_feedback", get_feedback_confirmation_keyboard),
        <<"feedback_message_handler">>)

\* feedback_confirm_send_callback; api_ok is whether submit_feedback_api
\* returned a response
feedback_confirm_send_callback(w, ev, api_ok) ==
    LET name == <<"feedback_confirm_send_callback">>
        feedback_type == GetD(w.c, "feedback_type", PStr(<<"general">>))
        message_text == Get(w.c, "feedback_message")
        w1 == Edit(w, ev.msg, "submitting", NoKb)
        w2 == [w1 EXCEPT !.out = Append(@, [op |-> "submit_feedback",
                                            text |-> <<feedback_type, message_text>>,
                                            msg |-> ev.msg])]
        w3 == Edit(w2, ev.msg, IF api_ok THEN "feedback_sent" ELSE "feedback_failed", NoKb)
    IN IF ~Truthy(message_text)
       THEN Ret("END", ClearC(Edit(w, ev.msg, "feedback_lost", NoKb)), name)
       ELSE Ret("END", PopC(w3, FeedbackSlots), name)

feedback_cancel_or_edit_callback(w, ev) ==
    Ret("ASK_FEEDBACK_TYPE",
        PopC(Edit(w, ev.msg, "ask_feedback_type", get_feedback_type_keyboard),
             FeedbackSlots),
        <<"feedback_cancel_or_edit_callback">>)

(***************************************************************************)
(* Gating filters (handlers.py: get_maintenance_status,                    *)
(* global_pre_processor, pre_process_blocked_user)                         *)
(***************************************************************************)
\* get_maintenance_status without the bypass for elevated users
get_maintenance_status_for_everyone(e) ==
    IF e.redis = "conn_error" THEN "None"
    ELSE IF e.redis = "timeout" THEN "raise"
    ELSE IF e.maint = "unset" \/ e.maint = "false" THEN "None"
    ELSE IF e.maint = "true" THEN "stealth"
    ELSE e.maint

\* the value get_maintenance_status returns: "None", "stealth", "text", or
\* "raise" when the read fails with an error other than ConnectionError
get_maintenance_status(e) ==
    IF e.admin THEN "None"
    ELSE IF e.redis = "conn_error" THEN "None"
    ELSE IF e.redis = "timeout" THEN "raise"
    ELSE IF e.maint = "unset" \/ e.maint = "false" THEN "None"
    ELSE IF e.maint = "true" THEN "stealth"
    ELSE e.maint

\* pre_process_blocked_user treating a failed status call as blocked
pre_process_blocked_user_fail_closed(e) ==
    IF e.admin THEN FALSE
    ELSE IF e.api = "fail" THEN TRUE
    ELSE e.blocked

\* pre_process_blocked_user that ignores the answer of the gateway
pre_process_blocked_user_ignoring_status(e) == FALSE

pre_process_blocked_user(e) ==
    IF e.admin THEN FALSE
    ELSE IF e.api = "fail" THEN FALSE
    ELSE e.blocked

\* global_pre_processor replying with the maintenance text without stopping
\* the update
global_pre_processor_reply_only(e) ==
    LET maintenance_status == get_maintenance_status(e)
    IN IF maintenance_status = "raise" THEN "ALLOW"
       ELSE IF maintenance_status = "stealth" THEN "SILENT_DROP"
       ELSE IF pre_process_blocked_user(e) THEN "SILENT_DROP"
       ELSE "ALLOW"

global_pre_processor(e) ==
    LET maintenance_status == get_maintenance_status(e)
    IN IF maintenance_status = "raise" THEN "ALLOW"
       ELSE IF maintenance_status = "stealth" THEN "SILENT_DROP"
       ELSE IF maintenance_status \notin {"None", ""} THEN "REPLY_AND_DROP"
       ELSE IF pre_process_blocked_user(e) THEN "SILENT_DROP"
       ELSE "ALLOW"

(***************************************************************************)
(* Dispatch (src/bot/main.py, setup_ptb_application): the browse           *)
(* conversation is asked first, then the feedback conversation.  A         *)
(* conversation asks its entry points (allow_reentry), then the handlers   *)
(* of its state, then its fallbacks.                                       *)
(***************************************************************************)
IsCmd(ev, name) == ev.kind = "cmd" /\ ev.data = <<name>>
IsCb(ev, data) == ev.kind = "cb" /\ ev.data = data
HasPrefix(ev, prefix) == ev.kind = "cb" /\ ev.data # <<>> /\ Head(ev.data) = prefix

BrowseStateRoute(st, ev) ==
    CASE st = "SELECTING_ACTION" ->
            IF IsCb(ev, COURSE_SEARCH_MODE) \/ IsCb(ev, PROF_SEARCH_MODE)
            THEN "select_search_mode_callback" ELSE "none"
      [] st = "TYPING_COURSE" ->
            IF ev.kind = "text" THEN "handle_course_search_input" ELSE "none"
      [] st = "TYPING_PROF" ->
            IF ev.kind = "text" THEN "handle_prof_search_input" ELSE "none"
      [] st = "SELECTING_COURSE_RESULTS" ->
            IF HasPrefix(ev, COURSE_SELECT_PREFIX) THEN "select_item_callback"
            ELSE IF IsCb(ev, BACK_TO_TYPING_COURSE) THEN "back_to_typing_course_callback"
            ELSE IF HasPrefix(ev, PAGE_COURSE_SEARCH_RESULTS_PREFIX)
            THEN "page_course_search_results_callback" ELSE "none"
      [] st = "SELECTING_PROF_RESULTS" ->
            IF HasPrefix(ev, PROF_SELECT_PREFIX) THEN "select_item_callback"
            ELSE IF IsCb(ev, BACK_TO_TYPING_PROF) THEN "back_to_typing_prof_callback"
            ELSE IF HasPrefix(ev, PAGE_PROF_SEARCH_RESULTS_PREFIX)
            THEN "page_prof_search_results_callback" ELSE "none"
      [] st = "SELECTING_COURSE_FOR_PROF" ->
            IF HasPrefix(ev, COURSE_SELECT_PREFIX) THEN "select_item_callback"
            ELSE IF HasPrefix(ev, PAGE_PROF_COURSE_LIST_PREFIX)
            THEN "page_prof_course_list_callback"
            ELSE IF HasPrefix(ev, VIEW_PROF_COURSES_PREFIX)
            THEN "view_prof_courses_callback" ELSE "none"
      [] st = "SELECTING_YEAR_SEMESTER" ->
            IF HasPrefix(ev, YEAR_SEM_SELECT_PREFIX) THEN "select_year_semester_callback"
            ELSE IF HasPrefix(ev, PAGE_YEAR_SEMESTER_PREFIX)
            THEN "page_year_semester_list_callback"
            ELSE IF IsCb(ev, BACK_TO_COURSE_SEARCH_LIST)
            THEN "back_to_course_search_list_callback"
            ELSE IF HasPrefix(ev, BACK_TO_PROF_COURSE_LIST_PREFIX)
            THEN "back_to_prof_courses_callback" ELSE "none"
      [] st = "SHOWING_FINAL_GRADES" ->
            IF HasPrefix(ev, BACK_TO_YEAR_SEM_SELECT_PREFIX)
            THEN "back_to_year_sem_select_callback"
            ELSE IF HasPrefix(ev, BACK_TO_COURSE_LIST_FROM_PLOT_PREFIX)
            THEN "back_to_course_list_from_plot_callback"
            ELSE IF IsCb(ev, BACK_TO_MAIN) THEN "back_to_main_callback"
            ELSE IF IsCb(ev, CANCEL) THEN "cancel_conversation" ELSE "none"
      [] OTHER -> "none"

BrowseFallbackRoute(ev) ==
    IF IsCmd(ev, "/start") THEN "start_command"
    ELSE IF IsCmd(ev, "/cancel") THEN "cancel_conversation"
    ELSE IF IsCb(ev, BACK_TO_MAIN) THEN "back_to_main_callback"
    ELSE IF IsCb(ev, BACK_TO_PROF_SEARCH_LIST) THEN "back_to_prof_search_list_callback"
    ELSE IF IsCb(ev, CANCEL) THEN "cancel_conversation"
    ELSE "none"

BrowseRoute(st, ev) ==
    IF IsCmd(ev, "/start") THEN "start_command"
    ELSE IF st = "END" THEN "none"
    ELSE IF BrowseStateRoute(st, ev) # "none" THEN BrowseStateRoute(st, ev)
    ELSE BrowseFallbackRoute(ev)

FeedbackRoute(fst, ev) ==
    IF IsCmd(ev, "/feedback") THEN "feedback_start_command"
    ELSE IF fst = "END" THEN "none"
    ELSE IF fst = "ASK_FEEDBACK_TYPE"
            /\ (IsCb(ev, FEEDBACK_TYPE_BUG) \/ IsCb(ev, FEEDBACK_TYPE_SUGGESTION)
                \/ IsCb(ev, FEEDBACK_TYPE_GENERAL))
    THEN "feedback_type_callback"
    ELSE IF fst = "TYPING_FEEDBACK_MESSAGE" /\ ev.kind = "text"
    THEN "feedback_message_handler"
    ELSE IF fst = "CONFIRM_FEEDBACK_SUBMISSION" /\ IsCb(ev, CONFIRM_SEND_FEEDBACK)
    THEN "feedback_confirm_send_callback"
    ELSE IF IsCb(ev, CANCEL_FEEDBACK) THEN "feedback_cancel_or_edit_callback"
    ELSE IF IsCb(ev, CANCEL) \/ IsCmd(ev, "/cancel") THEN "cancel_conversation"
    ELSE IF IsCmd(ev, "/start") THEN "start_command"
    ELSE "none"

\* the flow and the handler an event is routed to
Route(st, fst, ev) ==
    IF BrowseRoute(st, ev) # "none"
    THEN [flow |-> "browse", handler |-> BrowseRoute(st, ev)]
    ELSE IF FeedbackRoute(fst, ev) # "none"
    THEN [flow |-> "feedback", handler |-> FeedbackRoute(fst, ev)]
    ELSE [flow |-> "none", handler |-> "none"]


(***************************************************************************)
(* What the gateway can answer (src/bot/api_client.py: every call returns  *)
(* the decoded body, or None after a 404, an HTTP error, a timeout or a    *)
(* network failure)                                                        *)
(***************************************************************************)
SearchSizes == {9, 25}
TermCount == 10
ProfCourseCount == 9
Semesters == << "Even", "Odd", "Summer" >>

SearchList(search_type, n) ==
    PList([i \in 1..n |-> IF search_type = "course" THEN CourseItem(i) ELSE ProfItem(i)])

SearchReplies(search_type) ==
    { [value |-> SearchList(search_type, n), cause |-> "ok"] : n \in SearchSizes }
    \cup { [value |-> None, cause |-> c] : c \in {"not_found", "timeout", "network"} }

\* the first n terms of a course
CourseTerms(code, n) ==
    [k \in 1..n |-> Offering(code, Years[((k - 1) \div 3) + 1],
                             Semesters[((k - 1) % 3) + 1])]

TermReplies(code) == { PList(CourseTerms(code, TermCount)), None }

\* the offerings of a professor: every term of the first course, one term
\* of each other course
ProfOfferings ==
    CourseTerms(CourseCode(1), TermCount)
    \o [i \in 1..(ProfCourseCount - 1) |-> Offering(CourseCode(i + 1), Years[1], "Odd")]

ProfOfferingReplies == { PList(ProfOfferings), None }

(***************************************************************************)
(* Events of the user                                                      *)
(***************************************************************************)
Texts == { "q1", "q3" }
Commands == { "/start", "/cancel", "/feedback" }

CmdEvent(name) == [kind |-> "cmd", data |-> <<name>>, msg |-> 0, text |-> ""]
TextEvent(t) == [kind |-> "text", data |-> <<>>, msg |-> 0, text |-> t]
CbEvent(i, j) == [kind |-> "cb", data |-> msgs[i].kb[j].data, msg |-> i, text |-> ""]
NoEvent == [kind |-> "none", data |-> <<>>, msg |-> 0, text |-> ""]

\* the buttons the user taps: every control of every message still showing
\* a keyboard, and the first MaxItemTap choices of a list
Tappable(kb, j) == kb[j].text \notin {"item", "fb"} \/ j <= MaxItemTap

CbEvents ==
    UNION { { CbEvent(i, j) : j \in { k \in 1..Len(msgs[i].kb) : Tappable(msgs[i].kb, k) } }
            : i \in 1..Len(msgs) }

CmdEvents == { CmdEvent(c) : c \in Commands }
TextEvents == { TextEvent(t) : t \in Texts }

(***************************************************************************)
(* History kept for the properties                                         *)
(***************************************************************************)
\* the keyboard the list state st shows for the cached list and cursor of c
CurrentMenu(st, c) ==
    CASE st = "SELECTING_COURSE_RESULTS" /\ Truthy(Get(c, "all_course_search_results")) ->
            create_search_results_keyboard(c["all_course_search_results"].v, "course",
                GetD(c, "current_course_search_page", PInt(0)).v)
      [] st = "SELECTING_COURSE_FOR_PROF"
            /\ Truthy(Get(c, "unique_courses_for_selected_prof_kb")) ->
            create_prof_course_selection_keyboard(
                c["unique_courses_for_selected_prof_kb"].v,
                PyStr(Get(c, "selected_prof_id")),
                GetD(c, "current_prof_course_list_page", PInt(0)).v)
      [] st = "SELECTING_YEAR_SEMESTER"
            /\ Truthy(Get(c, "all_year_semester_list_results")) ->
            create_year_semester_keyboard(
                c["all_year_semester_list_results"].v,
                Get(c, "current_ys_list_identifier"), Get(c, "current_ys_list_mode"),
                GetD(c, "current_year_semester_list_page", PInt(0)).v)
      [] OTHER -> NoKb

\* the stored cursor of the list the state st shows
CursorOf(st, c) ==
    CASE st = "SELECTING_COURSE_RESULTS" -> Get(c, "current_course_search_page")
      [] st = "SELECTING_COURSE_FOR_PROF" -> Get(c, "current_prof_course_list_page")
      [] st = "SELECTING_YEAR_SEMESTER" -> Get(c, "current_year_semester_list_page")
      [] OTHER -> None

NoOrigin ==
    [menu |-> NoKb, st |-> "none", msg |-> 0, dest |-> 0, current |-> FALSE,
     cursor |-> None]

ForwardHandlers == { "select_item_callback", "select_year_semester_callback" }
BackHandlers ==
    { "back_to_typing_course_callback", "back_to_typing_prof_callback",
      "back_to_prof_search_list_callback", "back_to_course_search_list_callback",
      "back_to_prof_courses_callback", "back_to_course_list_from_plot_callback",
      "back_to_year_sem_select_callback" }

\* the menu a forward selection was made on, whether it is the menu as the
\* handlers last rendered it (the cached list at the stored cursor), and the
\* message that shows what the selection led to
OriginOf(h, ev, r) ==
    IF h \in ForwardHandlers
    THEN [menu |-> msgs[ev.msg].kb, st |-> state, msg |-> ev.msg,
          dest |-> IF Len(r.m) > Len(msgs) THEN Len(r.m) ELSE ev.msg,
          current |-> msgs[ev.msg].kb = CurrentMenu(state, ctx),
          cursor |-> CursorOf(state, ctx)]
    ELSE NoOrigin

NoLast ==
    [handler |-> "none", flow |-> "none", ev |-> NoEvent, api |-> "none",
     trace |-> <<>>, out |-> <<>>, before |-> "END", expired |-> FALSE,
     origin |-> NoOrigin, prev |-> NoOrigin]

W == [c |-> ctx, m |-> msgs, out |-> <<>>]

Allowed == global_pre_processor(env) = "ALLOW"
Routed(ev, h) == Allowed /\ Route(state, fstate, ev).handler = h

\* the conversation that ran the handler takes the state it returned
Apply(h, ev, r, api) ==
    LET flow == Route(state, fstate, ev).flow
    IN /\ Len(r.m) <= limit.msgs
       /\ h = "start_command" => starts < limit.starts
       /\ starts' = IF h = "start_command" THEN starts + 1 ELSE starts
       /\ state' = IF flow = "browse" THEN r.st ELSE state
       /\ fstate' = IF flow = "feedback" THEN r.st ELSE fstate
       /\ ctx' = r.c
       /\ msgs' = r.m
       /\ last' = [handler |-> h, flow |-> flow, ev |-> ev, api |-> api,
                   trace |-> r.trace, out |-> r.out, before |-> state,
                   expired |-> \A k \in BrowseSlots : ctx[k] = Absent,
                   origin |-> OriginOf(h, ev, r),
                   prev |-> IF h \in BackHandlers THEN last.origin ELSE NoOrigin]
       /\ UNCHANGED <<env, probe, limit>>


(***************************************************************************)
(* Actions: one per handler, taken when the dispatcher routes an event of  *)
(* the user to it                                                          *)
(***************************************************************************)
StartCommand ==
    \E ev \in CmdEvents :
        /\ Routed(ev, "start_command")
        /\ Apply("start_command", ev, start_command(W, ev), "none")

SelectSearchMode ==
    \E ev \in CbEvents :
        /\ Routed(ev, "select_search_mode_callback")
        /\ Apply("select_search_mode_callback", ev, select_search_mode_callback(W, ev), "none")

\* the gateway is asked only for a query of the minimum length
HandleCourseSearchInput ==
    \E ev \in TextEvents, reply \in SearchReplies("course") :
        LET called == TextLen(ev.text) >= 2
        IN /\ Routed(ev, "handle_course_search_input")
           /\ called \/ reply.cause = "not_found"
           /\ Apply("handle_course_search_input", ev,
                    handle_search_text_input(W, ev, "course", reply.value),
                    IF called THEN reply.cause ELSE "not_called")

HandleProfSearchInput ==
    \E ev \in TextEvents, reply \in SearchReplies("prof") :
        LET called == TextLen(ev.text) >= 3
        IN /\ Routed(ev, "handle_prof_search_input")
           /\ called \/ reply.cause = "not_found"
           /\ Apply("handle_prof_search_input", ev,
                    handle_search_text_input(W, ev, "prof", reply.value),
                    IF called THEN reply.cause ELSE "not_called")

SelectItem ==
    \E ev \in CbEvents :
        /\ Routed(ev, "select_item_callback")
        /\ LET isProf == Head(ev.data) = PROF_SELECT_PREFIX
               code == Split(Tail(ev.data), "|")[1]
           IN \E terms_api \in (IF isProf THEN {None} ELSE TermReplies(code)),
                 dossier_ok \in (IF isProf THEN BOOLEAN ELSE {TRUE}) :
                 Apply("select_item_callback", ev,
                       select_item_callback(W, ev, terms_api, dossier_ok), "none")

ViewProfCourses ==
    \E ev \in CbEvents, reply \in ProfOfferingReplies :
        /\ Routed(ev, "view_prof_courses_callback")
        /\ Apply("view_prof_courses_callback", ev,
                 view_prof_courses_callback(W, ev, reply), "none")

SelectYearSemester ==
    \E ev \in CbEvents, details_ok \in BOOLEAN, grades_ok \in BOOLEAN,
       plot \in PlotOutcomes :
        /\ Routed(ev, "select_year_semester_callback")
        /\ details_ok \/ grades_ok
        /\ (details_ok /\ grades_ok) \/ plot = "ok"
        /\ Apply("select_year_semester_callback", ev,
                 select_year_semester_callback(W, ev, details_ok, grades_ok, plot),
                 IF details_ok /\ grades_ok THEN plot ELSE "none")

PageCourseSearchResults ==
    \E ev \in CbEvents :
        /\ Routed(ev, "page_course_search_results_callback")
        /\ Apply("page_course_search_results_callback", ev, page_course_search_results_callback(W, ev), "none")

PageProfSearchResults ==
    \E ev \in CbEvents :
        /\ Routed(ev, "page_prof_search_results_callback")
        /\ Apply("page_prof_search_results_callback", ev, page_prof_search_results_callback(W, ev), "none")

PageProfCourseList ==
    \E ev \in CbEvents :
        /\ Routed(ev, "page_prof_course_list_callback")
        /\ Apply("page_prof_course_list_callback", ev, page_prof_course_list_callback(W, ev), "none")

PageYearSemesterList ==
    \E ev \in CbEvents :
        /\ Routed(ev, "page_year_semester_list_callback")
        /\ Apply("page_year_semester_list_callback", ev, page_year_semester_list_callback(W, ev), "none")

BackToMain ==
    \E ev \in CbEvents :
        /\ Routed(ev, "back_to_main_callback")
        /\ Apply("back_to_main_callback", ev, back_to_main_callback(W, ev), "none")

BackToTypingCourse ==
    \E ev \in CbEvents :
        /\ Routed(ev, "back_to_typing_course_callback")
        /\ Apply("back_to_typing_course_callback", ev, back_to_typing_course_callback(W, ev), "none")

BackToTypingProf ==
    \E ev \in CbEvents :
        /\ Routed(ev, "back_to_typing_prof_callback")
        /\ Apply("back_to_typing_prof_callback", ev, back_to_typing_prof_callback(W, ev), "none")

BackToProfSearchList ==
    \E ev \in CbEvents :
        /\ Routed(ev, "back_to_prof_search_list_callback")
        /\ Apply("back_to_prof_search_list_callback", ev, back_to_prof_search_list_callback(W, ev), "none")

BackToCourseSearchList ==
    \E ev \in CbEvents :
        /\ Routed(ev, "back_to_course_search_list_callback")
        /\ Apply("back_to_course_search_list_callback", ev, back_to_course_search_list_callback(W, ev), "none")

BackToProfCourses ==
    \E ev \in CbEvents :
        /\ Routed(ev, "back_to_prof_courses_callback")
        /\ Apply("back_to_prof_courses_callback", ev, back_to_prof_courses_callback(W, ev), "none")

BackToCourseListFromPlot ==
    \E ev \in CbEvents :
        /\ Routed(ev, "back_to_course_list_from_plot_callback")
        /\ Apply("back_to_course_list_from_plot_callback", ev, back_to_course_list_from_plot_callback(W, ev), "none")

BackToYearSemSelect ==
    \E ev \in CbEvents :
        /\ Routed(ev, "back_to_year_sem_select_callback")
        /\ Apply("back_to_year_sem_select_callback", ev, back_to_year_sem_select_callback(W, ev), "none")

CancelConversation ==
    \E ev \in (CbEvents \cup CmdEvents) :
        /\ Routed(ev, "cancel_conversation")
        /\ Apply("cancel_conversation", ev, cancel_conversation(W, ev), "none")

FeedbackStart ==
    \E ev \in CmdEvents :
        /\ Routed(ev, "feedback_start_command")
        /\ Apply("feedback_start_command", ev, feedback_start_command(W, ev), "none")

FeedbackType ==
    \E ev \in CbEvents :
        /\ Routed(ev, "feedback_type_callback")
        /\ Apply("feedback_type_callback", ev, feedback_type_callback(W, ev), "none")

FeedbackMessage ==
    \E ev \in TextEvents :
        /\ Routed(ev, "feedback_message_handler")
        /\ Apply("feedback_message_handler", ev, feedback_message_handler(W, ev), "none")

FeedbackConfirmSend ==
    \E ev \in CbEvents, api_ok \in BOOLEAN :
        /\ Routed(ev, "feedback_confirm_send_callback")
        /\ Apply("feedback_confirm_send_callback", ev,
                 feedback_confirm_send_callback(W, ev, api_ok), "none")

FeedbackCancelOrEdit ==
    \E ev \in CbEvents :
        /\ Routed(ev, "feedback_cancel_or_edit_callback")
        /\ Apply("feedback_cancel_or_edit_callback", ev, feedback_cancel_or_edit_callback(W, ev), "none")

\* a run is one flow in depth, or a flow restarted over stale messages
RunShapes == { [msgs |-> MaxMsgs, starts |-> 1],
               [msgs |-> MaxStaleMsgs, starts |-> MaxStarts] }

NoProbe == [kind |-> "none"]
OpenEnv == [admin |-> FALSE, redis |-> "up", maint |-> "unset", api |-> "up",
            blocked |-> FALSE]

Init ==
    /\ state = "END"
    /\ fstate = "END"
    /\ ctx = EmptyCtx
    /\ msgs = <<>>
    /\ last = NoLast
    /\ env = OpenEnv
    /\ probe = NoProbe
    /\ starts = 0
    /\ limit \in RunShapes

Next ==
    \/ StartCommand
    \/ SelectSearchMode
    \/ HandleCourseSearchInput
    \/ HandleProfSearchInput
    \/ SelectItem
    \/ ViewProfCourses
    \/ SelectYearSemester
    \/ PageCourseSearchResults
    \/ PageProfSearchResults
    \/ PageProfCourseList
    \/ PageYearSemesterList
    \/ BackToMain
    \/ BackToTypingCourse
    \/ BackToTypingProf
    \/ BackToProfSearchList
    \/ BackToCourseSearchList
    \/ BackToProfCourses
    \/ BackToCourseListFromPlot
    \/ BackToYearSemSelect
    \/ CancelConversation

Spec == Init /\ [][Next]_vars

TypeOK ==
    /\ state \in BrowseStates \cup {"END"}
    /\ fstate \in FeedbackStates \cup {"END"}
    /\ Len(msgs) <= limit.msgs
    /\ starts <= limit.starts


\* an event the gating filters stop: a maintenance text is sent in reply to
\* a message, shown as an alert for a button
GateDrop ==
    \E ev \in CmdEvents \cup TextEvents \cup CbEvents :
        LET verdict == global_pre_processor(env)
            w1 == IF verdict # "REPLY_AND_DROP" THEN W
                  ELSE IF ev.kind # "cb" THEN Send(W, "maintenance", NoKb)
                  ELSE [W EXCEPT !.out = Append(@, [op |-> "alert",
                                     text |-> "maintenance", msg |-> ev.msg])]
        IN /\ verdict # "ALLOW"
           /\ Len(w1.m) <= limit.msgs
           /\ msgs' = w1.m
           /\ last' = [NoLast EXCEPT !.handler = verdict, !.ev = ev, !.out = w1.out,
                                     !.before = state]
           /\ UNCHANGED <<state, fstate, ctx, env, probe, starts, limit>>

(***************************************************************************)
(* A run of the course flow with the feedback conversation beside it       *)
(***************************************************************************)
InitExpiry ==
    /\ state = "END"
    /\ fstate = "END"
    /\ ctx = EmptyCtx
    /\ msgs = <<>>
    /\ last = NoLast
    /\ env = OpenEnv
    /\ probe = NoProbe
    /\ starts = 0
    /\ limit = [msgs |-> MaxMsgs, starts |-> 1]

NextExpiry ==
    \/ StartCommand
    \/ SelectSearchMode
    \/ HandleCourseSearchInput
    \/ SelectItem
    \/ SelectYearSemester
    \/ BackToYearSemSelect
    \/ BackToCourseListFromPlot
    \/ FeedbackStart
    \/ FeedbackType
    \/ FeedbackMessage
    \/ FeedbackConfirmSend

SpecExpiry == InitExpiry /\ [][NextExpiry]_vars


(***************************************************************************)
(* The gating filters under every environment                              *)
(***************************************************************************)
Envs ==
    [admin : BOOLEAN, redis : {"up", "conn_error", "timeout"},
     maint : {"unset", "false", "true", "stealth", "", "text"},
     api : {"up", "fail"}, blocked : BOOLEAN]

InitGate ==
    /\ state = "END"
    /\ fstate = "END"
    /\ ctx = EmptyCtx
    /\ msgs = <<>>
    /\ last = NoLast
    /\ env \in Envs
    /\ probe = NoProbe
    /\ starts = 0
    /\ limit = [msgs |-> MaxStaleMsgs, starts |-> 1]

NextGate ==
    \/ GateDrop
    \/ StartCommand
    \/ SelectSearchMode
    \/ CancelConversation
    \/ FeedbackStart
    \/ FeedbackType
    \/ FeedbackMessage
    \/ FeedbackConfirmSend
    \/ FeedbackCancelOrEdit

SpecGate == InitGate /\ [][NextGate]_vars

(***************************************************************************)
(* The maintenance toggle switched while a user is in a conversation       *)
(***************************************************************************)
\* maintenance_command of an elevated user: off deletes the key, on sets
\* it to 'stealth' or to the message text
MaintenanceCommand ==
    \E mode \in {"unset", "stealth", "text"} :
        /\ env.maint # mode
        /\ env' = [env EXCEPT !.maint = mode]
        /\ last' = [NoLast EXCEPT !.handler = "maintenance_command", !.before = state]
        /\ UNCHANGED <<state, fstate, ctx, msgs, probe, starts, limit>>

InitMaint ==
    /\ state = "END"
    /\ fstate = "END"
    /\ ctx = EmptyCtx
    /\ msgs = <<>>
    /\ last = NoLast
    /\ env \in { e \in Envs : ~e.admin /\ e.redis = "up" /\ e.api = "up" /\ ~e.blocked }
    /\ probe = NoProbe
    /\ starts = 0
    /\ limit = [msgs |-> MaxStaleMsgs, starts |-> 1]

NextMaint ==
    \/ MaintenanceCommand
    \/ GateDrop
    \/ StartCommand
    \/ SelectSearchMode
    \/ HandleCourseSearchInput
    \/ CancelConversation
    \/ FeedbackStart
    \/ FeedbackType

SpecMaint == InitMaint /\ [][NextMaint]_vars

(***************************************************************************)
(* The back handlers over every combination of present and missing slots   *)
(***************************************************************************)
BackTriggers ==
    { [state |-> "SELECTING_COURSE_RESULTS", data |-> BACK_TO_TYPING_COURSE],
      [state |-> "SELECTING_PROF_RESULTS", data |-> BACK_TO_TYPING_PROF],
      [state |-> "SELECTING_COURSE_FOR_PROF", data |-> BACK_TO_PROF_SEARCH_LIST],
      [state |-> "SELECTING_YEAR_SEMESTER", data |-> BACK_TO_COURSE_SEARCH_LIST],
      [state |-> "SELECTING_YEAR_SEMESTER",
       data |-> <<BACK_TO_PROF_COURSE_LIST_PREFIX, "1">>],
      [state |-> "SELECTING_YEAR_SEMESTER",
       data |-> <<BACK_TO_PROF_COURSE_LIST_PREFIX, "None">>],
      [state |-> "SHOWING_FINAL_GRADES",
       data |-> <<BACK_TO_YEAR_SEM_SELECT_PREFIX>> \o CourseCode(1)],
      [state |-> "SHOWING_FINAL_GRADES",
       data |-> <<BACK_TO_COURSE_LIST_FROM_PLOT_PREFIX, "course">>],
      [state |-> "SHOWING_FINAL_GRADES",
       data |-> <<BACK_TO_COURSE_LIST_FROM_PLOT_PREFIX, "prof_", "1">>] }

\* a context with each slot the back handlers read present or missing
BackContext(profs, courses, unique, prof_id, course, terms, mode, identifier) ==
    [k \in Slots |->
        CASE k = "all_prof_search_results" -> profs
          [] k = "current_prof_search_page" -> IF profs = Absent THEN Absent ELSE PInt(1)
          [] k = "all_course_search_results" -> courses
          [] k = "current_course_search_page" -> IF courses = Absent THEN Absent ELSE PInt(1)
          [] k = "unique_courses_for_selected_prof_kb" -> unique
          [] k = "current_prof_course_list_page" -> IF unique = Absent THEN Absent ELSE PInt(1)
          [] k = "selected_prof_id" -> prof_id
          [] k = "selected_course" -> course
          [] k = "all_year_semester_list_results" -> terms
          [] k = "current_year_semester_list_page" -> IF terms = Absent THEN Absent ELSE PInt(1)
          [] k = "current_ys_list_mode" -> mode
          [] k = "current_ys_list_identifier" -> identifier
          [] OTHER -> Absent]

BackContexts ==
    { BackContext(profs, courses, unique, prof_id, course, terms, mode, identifier) :
        profs \in {Absent, SearchList("prof", 9)},
        courses \in {Absent, SearchList("course", 9)},
        unique \in {Absent, PList(UniqueCourses(ProfOfferings, {}))},
        prof_id \in {Absent, PInt(1), PInt(2)},
        course \in {Absent, PStr(CourseCode(1))},
        terms \in {Absent, PList(CourseTerms(CourseCode(1), TermCount))},
        mode \in {Absent, PStr(<<"course">>), PStr(<<"prof">>)},
        identifier \in {Absent, PStr(CourseCode(1))} }

InitBack ==
    \E trigger \in BackTriggers :
        /\ state = trigger.state
        /\ fstate = "END"
        /\ ctx \in BackContexts
        /\ msgs = << [text |-> "menu", kb |-> << Btn("Back", trigger.data) >>,
                      live |-> TRUE] >>
        /\ last = NoLast
        /\ env = OpenEnv
        /\ probe = NoProbe
        /\ starts = 0
        /\ limit = [msgs |-> MaxStaleMsgs, starts |-> 0]

NextBack ==
    \/ BackToTypingCourse
    \/ BackToTypingProf
    \/ BackToProfSearchList
    \/ BackToCourseSearchList
    \/ BackToProfCourses
    \/ BackToCourseListFromPlot
    \/ BackToYearSemSelect

SpecBack == InitBack /\ [][NextBack]_vars


(***************************************************************************)
(* create_search_results_keyboard on every list length and page            *)
(***************************************************************************)
LastPage(n) == IF n = 0 THEN 0 ELSE (n - 1) \div ITEMS_PER_PAGE

RenderInputs ==
    { [kind |-> "render", search_type |-> t, n |-> np[1], p |-> np[2], kb |-> NoKb,
       done |-> FALSE] :
        t \in {"course", "prof"},
        np \in { x \in (0..MaxListLen) \X (0..LastPage(MaxListLen)) : x[2] <= LastPage(x[1]) } }

InitRender ==
    /\ state = "END"
    /\ fstate = "END"
    /\ ctx = EmptyCtx
    /\ msgs = <<>>
    /\ last = NoLast
    /\ env = OpenEnv
    /\ probe \in RenderInputs
    /\ starts = 0
    /\ limit = [msgs |-> 0, starts |-> 0]

RenderPage ==
    /\ probe.kind = "render"
    /\ ~probe.done
    /\ probe' = [probe EXCEPT
                   !.kb = create_search_results_keyboard(
                              SearchList(probe.search_type, probe.n).v,
                              probe.search_type, probe.p),
                   !.done = TRUE]
    /\ UNCHANGED <<state, fstate, ctx, msgs, last, env, starts, limit>>

SpecRender == InitRender /\ [][RenderPage]_vars


(***************************************************************************)
(* Callback payloads: built by the keyboard builders, decoded by the       *)
(* handlers                                                                *)
(***************************************************************************)
\* course codes as the gateway stores them: free text of up to 20 characters
\* (src/api/models.py), so a code may hold a delimiter character
ProbeCodes == { <<"CRS", "1">>, <<"CS", "_", "101">>, <<"CS", "|", "A">> }
ProbeProfs == { 1, 12 }
ProbeModes == { "course", "prof" }
ProbePages == { 0, 1 }

CodecInputs ==
    { [kind |-> "codec", code |-> c, prof |-> f, mode |-> m, page |-> g,
       prefix |-> "none", payload |-> <<>>, ok |-> TRUE, done |-> FALSE] :
        c \in ProbeCodes, f \in ProbeProfs, m \in ProbeModes, g \in ProbePages }

CtxOf(f) == [k \in Slots |-> IF k \in DOMAIN f THEN f[k] ELSE Absent]
MenuWorld(c, kb) ==
    [c |-> c, m |-> << [text |-> "menu", kb |-> kb, live |-> TRUE] >>, out |-> <<>>]
Tap(data) == [kind |-> "cb", data |-> data, msg |-> 1, text |-> ""]
NavButton(kb, label) == kb[CHOOSE i \in 1..Len(kb) : kb[i].text = label]
\* the control that targets page g: Next of page 0, Previous of page 1
NavTo(kb, g) == NavButton(kb, IF g = 1 THEN "Next" ELSE "Previous")

\* lists of the gateway that hold the probed course
ProbeCourses(code) ==
    << [code |-> code] >> \o [i \in 1..8 |-> CourseItem(i + 1)]
ProbeOfferings(code) ==
    CourseTerms(code, TermCount)
    \o [i \in 1..(ProfCourseCount - 1) |-> Offering(CourseCode(i + 1), Years[1], "Odd")]
\* the identifier select_item_callback stores for the year/semester list
ProbeIdentifier(q) ==
    IF q.mode = "prof" THEN PStr(<<StrOfInt(q.prof)>>) ELSE PStr(q.code)

CodecReady == probe.kind = "codec" /\ ~probe.done
Decoded(prefix, payload, ok) ==
    [probe EXCEPT !.prefix = prefix, !.payload = payload, !.ok = ok, !.done = TRUE]

CodecPageCourse ==
    LET list == ProbeCourses(probe.code)
        kb == create_search_results_keyboard(list, "course", 1 - probe.page)
        payload == NavTo(kb, probe.page).data
        c == CtxOf([all_course_search_results |-> PList(list),
                    current_course_search_page |-> PInt(1 - probe.page),
                    search_mode |-> PStr(<<"course">>)])
        r == page_course_search_results_callback(MenuWorld(c, kb), Tap(payload))
    IN /\ CodecReady
       /\ probe' = Decoded(PAGE_COURSE_SEARCH_RESULTS_PREFIX, payload,
                         /\ r.st = "SELECTING_COURSE_RESULTS"
                         /\ r.c["current_course_search_page"] = PInt(probe.page)
                         /\ r.m[1].kb = create_search_results_keyboard(list, "course", probe.page))
       /\ UNCHANGED <<state, fstate, ctx, msgs, last, env, starts, limit>>

CodecPageProf ==
    LET list == SearchList("prof", 9).v
        kb == create_search_results_keyboard(list, "prof", 1 - probe.page)
        payload == NavTo(kb, probe.page).data
        c == CtxOf([all_prof_search_results |-> PList(list),
                    current_prof_search_page |-> PInt(1 - probe.page),
                    search_mode |-> PStr(<<"prof">>)])
        r == page_prof_search_results_callback(MenuWorld(c, kb), Tap(payload))
    IN /\ CodecReady
       /\ probe' = Decoded(PAGE_PROF_SEARCH_RESULTS_PREFIX, payload,
                         /\ r.st = "SELECTING_PROF_RESULTS"
                         /\ r.c["current_prof_search_page"] = PInt(probe.page)
                         /\ r.m[1].kb = create_search_results_keyboard(list, "prof", probe.page))
       /\ UNCHANGED <<state, fstate, ctx, msgs, last, env, starts, limit>>

CodecPageProfCourse ==
    LET offerings == ProbeOfferings(probe.code)
        unique == UniqueCourses(offerings, {})
        prof_id_str == <<StrOfInt(probe.prof)>>
        kb == create_prof_course_selection_keyboard(unique, prof_id_str, 1 - probe.page)
        payload == NavTo(kb, probe.page).data
        c == CtxOf([all_prof_course_list_results |-> PList(offerings),
                    unique_courses_for_selected_prof_kb |-> PList(unique),
                    current_prof_course_list_page |-> PInt(1 - probe.page),
                    selected_prof_id |-> PInt(probe.prof),
                    search_mode |-> PStr(<<"prof">>)])
        r == page_prof_course_list_callback(MenuWorld(c, kb), Tap(payload))
    IN /\ CodecReady
       /\ probe' = Decoded(PAGE_PROF_COURSE_LIST_PREFIX, payload,
                         /\ r.st = "SELECTING_COURSE_FOR_PROF"
                         /\ r.c["current_prof_course_list_page"] = PInt(probe.page)
                         /\ r.m[1].kb = create_prof_course_selection_keyboard(
                                            unique, prof_id_str, probe.page))
       /\ UNCHANGED <<state, fstate, ctx, msgs, last, env, starts, limit>>

CodecPageYearSemester ==
    LET terms == CourseTerms(probe.code, TermCount)
        mode == PStr(<<probe.mode>>)
        identifier == ProbeIdentifier(probe)
        kb == create_year_semester_keyboard(terms, identifier, mode, 1 - probe.page)
        payload == NavTo(kb, probe.page).data
        c == CtxOf([all_year_semester_list_results |-> PList(terms),
                    current_year_semester_list_page |-> PInt(1 - probe.page),
                    current_ys_list_mode |-> mode,
                    current_ys_list_identifier |-> identifier,
                    selected_course |-> PStr(probe.code),
                    search_mode |-> mode])
        r == page_year_semester_list_callback(MenuWorld(c, kb), Tap(payload))
    IN /\ CodecReady
       /\ probe' = Decoded(PAGE_YEAR_SEMESTER_PREFIX, payload,
                         /\ r.st = "SELECTING_YEAR_SEMESTER"
                         /\ r.c["current_year_semester_list_page"] = PInt(probe.page)
                         /\ r.m[1].kb = create_year_semester_keyboard(terms, identifier, mode,
                                                                      probe.page))
       /\ UNCHANGED <<state, fstate, ctx, msgs, last, env, starts, limit>>

CodecCourseSelect ==
    LET list == ProbeCourses(probe.code)
        offerings == ProbeOfferings(probe.code)
        unique == UniqueCourses(offerings, {})
        kb == IF probe.mode = "course"
              THEN create_search_results_keyboard(list, "course", 0)
              ELSE create_prof_course_selection_keyboard(
                       unique, <<StrOfInt(probe.prof)>>, 0)
        payload == kb[1].data
        c == IF probe.mode = "course"
             THEN CtxOf([all_course_search_results |-> PList(list),
                         current_course_search_page |-> PInt(0),
                         search_mode |-> PStr(<<"course">>)])
             ELSE CtxOf([all_prof_course_list_results |-> PList(offerings),
                         unique_courses_for_selected_prof_kb |-> PList(unique),
                         current_prof_course_list_page |-> PInt(0),
                         selected_prof_id |-> PInt(probe.prof),
                         search_mode |-> PStr(<<"prof">>)])
        r == select_item_callback(MenuWorld(c, kb), Tap(payload),
                                  PList(CourseTerms(probe.code, TermCount)), TRUE)
    IN /\ CodecReady
       /\ probe' = Decoded(COURSE_SELECT_PREFIX, payload,
                         /\ r.st = "SELECTING_YEAR_SEMESTER"
                         /\ r.c["selected_course"] = PStr(probe.code))
       /\ UNCHANGED <<state, fstate, ctx, msgs, last, env, starts, limit>>

CodecYearSemesterSelect ==
    LET terms == CourseTerms(probe.code, TermCount)
        mode == PStr(<<probe.mode>>)
        identifier == ProbeIdentifier(probe)
        kb == create_year_semester_keyboard(terms, identifier, mode, probe.page)
        shown == Slice(SortTerms(UniqueTerms(terms)), probe.page * ITEMS_PER_PAGE,
                       probe.page * ITEMS_PER_PAGE + ITEMS_PER_PAGE)
        payload == kb[1].data
        c == CtxOf([all_year_semester_list_results |-> PList(terms),
                    current_year_semester_list_page |-> PInt(probe.page),
                    current_ys_list_mode |-> mode,
                    current_ys_list_identifier |-> identifier,
                    selected_course |-> PStr(probe.code),
                    selected_prof_id |-> IF probe.mode = "prof"
                                         THEN PInt(probe.prof) ELSE Absent,
                    search_mode |-> mode])
        r == select_year_semester_callback(MenuWorld(c, kb), Tap(payload), TRUE, TRUE, "ok")
    IN /\ CodecReady
       /\ probe' = Decoded(YEAR_SEM_SELECT_PREFIX, payload,
                         /\ r.st = "SHOWING_FINAL_GRADES"
                         /\ r.c["selected_year"] = PStr(<<shown[1].academic_year>>)
                         /\ r.c["selected_semester"] = PStr(<<shown[1].semester>>))
       /\ UNCHANGED <<state, fstate, ctx, msgs, last, env, starts, limit>>

InitCodec ==
    /\ state = "END"
    /\ fstate = "END"
    /\ ctx = EmptyCtx
    /\ msgs = <<>>
    /\ last = NoLast
    /\ env = OpenEnv
    /\ probe \in CodecInputs
    /\ starts = 0
    /\ limit = [msgs |-> 0, starts |-> 0]

NextCodec ==
    \/ CodecPageCourse
    \/ CodecPageProf
    \/ CodecPageProfCourse
    \/ CodecPageYearSemester
    \/ CodecCourseSelect
    \/ CodecYearSemesterSelect

SpecCodec == InitCodec /\ [][NextCodec]_vars


(***************************************************************************)
(* The year/semester menu of a course whose code the gateway chose freely  *)
(***************************************************************************)
\* the state select_item_callback leaves: the menu of the terms shown on page
\* 0, the list, its cursor and the selection in the context
InitPayload ==
    \E code \in ProbeCodes, mode \in ProbeModes, prof \in ProbeProfs :
        LET terms == CourseTerms(code, TermCount)
            identifier == IF mode = "prof" THEN PStr(<<StrOfInt(prof)>>) ELSE PStr(code)
            kb == create_year_semester_keyboard(terms, identifier, PStr(<<mode>>), 0)
        IN /\ state = "SELECTING_YEAR_SEMESTER"
           /\ fstate = "END"
           /\ ctx = CtxOf([all_year_semester_list_results |-> PList(terms),
                           current_year_semester_list_page |-> PInt(0),
                           current_ys_list_mode |-> PStr(<<mode>>),
                           current_ys_list_identifier |-> identifier,
                           selected_course |-> PStr(code),
                           selected_prof_id |-> IF mode = "prof" THEN PInt(prof) ELSE Absent,
                           search_mode |-> PStr(<<mode>>),
                           last_bot_message_obj |-> PMsg(1)])
           /\ msgs = << [text |-> "year_semester_list", kb |-> kb, live |-> TRUE] >>
           /\ last = NoLast
           /\ env = OpenEnv
           /\ probe = NoProbe
           /\ starts = 0
           /\ limit = [msgs |-> MaxMsgs, starts |-> 0]

NextPayload ==
    \/ PageYearSemesterList
    \/ SelectYearSemester
    \/ BackToYearSemSelect
    \/ CancelConversation

SpecPayload == InitPayload /\ [][NextPayload]_vars


(***************************************************************************)
(* Inactivity: conversation_timeout of the two conversation handlers       *)
(***************************************************************************)
\* No handler is registered for ConversationHandler.TIMEOUT, so the job the
\* library runs after conversation_timeout seconds without a handled event
\* only sets the conversation's state to END.
BrowseTimeout ==
    /\ state # "END"
    /\ state' = "END"
    /\ last' = [NoLast EXCEPT !.handler = "conversation_timeout", !.flow = "browse",
                              !.before = state]
    /\ UNCHANGED <<fstate, ctx, msgs, env, probe, starts, limit>>

FeedbackTimeout ==
    /\ fstate # "END"
    /\ fstate' = "END"
    /\ last' = [NoLast EXCEPT !.handler = "conversation_timeout", !.flow = "feedback",
                              !.before = fstate]
    /\ UNCHANGED <<state, ctx, msgs, env, probe, starts, limit>>

InitTimeout ==
    /\ state = "END"
    /\ fstate = "END"
    /\ ctx = EmptyCtx
    /\ msgs = <<>>
    /\ last = NoLast
    /\ env = OpenEnv
    /\ probe = NoProbe
    /\ starts = 0
    /\ limit = [msgs |-> MaxStaleMsgs, starts |-> 1]

NextTimeout ==
    \/ StartCommand
    \/ SelectSearchMode
    \/ HandleCourseSearchInput
    \/ CancelConversation
    \/ FeedbackStart
    \/ FeedbackType
    \/ BrowseTimeout
    \/ FeedbackTimeout

SpecTimeout == InitTimeout /\ [][NextTimeout]_vars


(***************************************************************************)
(* The professor path with a restart: the dossier of the first search is   *)
(* still in the chat when the second one begins                            *)
(***************************************************************************)
InitDossier ==
    /\ state = "END"
    /\ fstate = "END"
    /\ ctx = EmptyCtx
    /\ msgs = <<>>
    /\ last = NoLast
    /\ env = OpenEnv
    /\ probe = NoProbe
    /\ starts = 0
    /\ limit = [msgs |-> MaxMsgs, starts |-> MaxStarts]

NextDossier ==
    \/ StartCommand
    \/ SelectSearchMode
    \/ HandleProfSearchInput
    \/ SelectItem
    \/ ViewProfCourses
    \/ BackToProfSearchList

SpecDossier == InitDossier /\ [][NextDossier]_vars


(***************************************************************************)
(* Two searches of one user: the year/semester menu of the first course is *)
(* still in the chat when a second course has been selected                *)
(***************************************************************************)
MaxListedItemTap == 2   \* item buttons of a result page the user taps here

\* select_item_callback on any of the first MaxListedItemTap buttons
SelectListedItem ==
    \E i \in 1..Len(msgs) :
        \E j \in { k \in 1..Len(msgs[i].kb) : k <= MaxListedItemTap } :
            LET ev == CbEvent(i, j)
            IN /\ Routed(ev, "select_item_callback")
               /\ Head(ev.data) = COURSE_SELECT_PREFIX
               /\ \E terms_api \in TermReplies(Split(Tail(ev.data), "|")[1]) :
                     Apply("select_item_callback", ev,
                           select_item_callback(W, ev, terms_api, TRUE), "none")

InitStaleMenu ==
    /\ state = "END"
    /\ fstate = "END"
    /\ ctx = EmptyCtx
    /\ msgs = <<>>
    /\ last = NoLast
    /\ env = OpenEnv
    /\ probe = NoProbe
    /\ starts = 0
    /\ limit = [msgs |-> MaxMsgs, starts |-> MaxStarts]

NextStaleMenu ==
    \/ StartCommand
    \/ SelectSearchMode
    \/ HandleCourseSearchInput
    \/ SelectListedItem
    \/ SelectYearSemester

SpecStaleMenu == InitStaleMenu /\ [][NextStaleMenu]_vars


(***************************************************************************)
(* Search texts around the minimum lengths                                 *)
(***************************************************************************)
\* texts of 1, 2 and 3 characters, and one of 1 character between blanks
TypedTexts == { "q1", " q ", "q2", "q3" }

\* search_items_api is awaited after the length check only: for a text that
\* is too short the gateway gives no answer to the handler
TypeCourseText ==
    \E t \in TypedTexts, reply \in SearchReplies("course") :
        LET ev == TextEvent(t)
            called == TextLen(t) >= 2
        IN /\ Routed(ev, "handle_course_search_input")
           /\ called \/ reply.cause = "not_found"
           /\ Apply("handle_course_search_input", ev,
                    handle_search_text_input(W, ev, "course", reply.value),
                    IF called THEN reply.cause ELSE "not_called")

TypeProfText ==
    \E t \in TypedTexts, reply \in SearchReplies("prof") :
        LET ev == TextEvent(t)
            called == TextLen(t) >= 3
        IN /\ Routed(ev, "handle_prof_search_input")
           /\ called \/ reply.cause = "not_found"
           /\ Apply("handle_prof_search_input", ev,
                    handle_search_text_input(W, ev, "prof", reply.value),
                    IF called THEN reply.cause ELSE "not_called")

InitTyping ==
    /\ state = "END"
    /\ fstate = "END"
    /\ ctx = EmptyCtx
    /\ msgs = <<>>
    /\ last = NoLast
    /\ env = OpenEnv
    /\ probe = NoProbe
    /\ starts = 0
    /\ limit = [msgs |-> MaxStaleMsgs, starts |-> MaxStarts]

NextTyping ==
    \/ StartCommand
    \/ SelectSearchMode
    \/ TypeCourseText
    \/ TypeProfText
    \/ BackToTypingCourse
    \/ BackToTypingProf

SpecTyping == InitTyping /\ [][NextTyping]_vars


(***************************************************************************)
(* The year/semester menu over term lists in every arrival order           *)
(***************************************************************************)
MaxTerms == 3

\* the semester column is free text (src/api/models.py:44): the three
\* semesters of sem_map, two others, and a missing one
TermSemesters == { "Odd", "Even", "Summer", "Winter", "Monsoon", "" }
TermYears == { "2023-2024", "2024-2025" }
TermPool == { Offering(<<"CRS1">>, y, s) : y \in TermYears, s \in TermSemesters }

TermLists == UNION { [1..n -> TermPool] : n \in 0..MaxTerms }

TermMenuInputs ==
    { [kind |-> "term_menu", terms |-> ts, kb |-> NoKb, done |-> FALSE] : ts \in TermLists }

InitTermMenu ==
    /\ state = "END"
    /\ fstate = "END"
    /\ ctx = EmptyCtx
    /\ msgs = <<>>
    /\ last = NoLast
    /\ env = OpenEnv
    /\ probe \in TermMenuInputs
    /\ starts = 0
    /\ limit = [msgs |-> 0, starts |-> 0]

RenderTermMenu ==
    /\ probe.kind = "term_menu"
    /\ ~probe.done
    /\ probe' = [probe EXCEPT
                   !.kb = create_year_semester_keyboard(
                              probe.terms, PStr(<<"CRS1">>), PStr(<<"course">>), 0),
                   !.done = TRUE]
    /\ UNCHANGED <<state, fstate, ctx, msgs, last, env, starts, limit>>

SpecTermMenu == InitTermMenu /\ [][RenderTermMenu]_vars


(***************************************************************************)
(* Two users in private chats.  The variables hold the session of the user *)
(* whose update is being handled; the sessions of the others are kept in   *)
(* the store of the application under the key of the user.                 *)
(***************************************************************************)
Users == { 1, 2 }

\* one dictionary for every user, as bot_data is
SessionKeyShared(user_id) == 1

\* context.user_data and the key of the conversation: per user (the
\* ConversationHandler is built with the default per_user, and the handlers
\* use user_data only, never chat_data or bot_data, for the slots)
SessionKey(user_id) == user_id

Session == [state |-> state, fstate |-> fstate, ctx |-> ctx, msgs |-> msgs]
NoSession == [state |-> "END", fstate |-> "END", ctx |-> EmptyCtx, msgs |-> <<>>]

\* the next update is of another user: the dispatcher hands the handlers the
\* session stored under that user's key (own is the history of what each
\* user's own handlers left, kept for the properties)
SwitchUser ==
    /\ probe.kind = "users"
    /\ \E u \in Users \ {probe.active} :
          LET stored == [probe.data EXCEPT ![SessionKey(probe.active)] = Session]
              given == stored[SessionKey(u)]
          IN /\ probe' = [probe EXCEPT !.active = u, !.data = stored,
                                       !.own = [@ EXCEPT ![probe.active] = Session]]
             /\ state' = given.state
             /\ fstate' = given.fstate
             /\ ctx' = given.ctx
             /\ msgs' = given.msgs
    /\ UNCHANGED <<last, env, starts, limit>>

InitTwoUsers ==
    /\ state = "END"
    /\ fstate = "END"
    /\ ctx = EmptyCtx
    /\ msgs = <<>>
    /\ last = NoLast
    /\ env = OpenEnv
    /\ probe = [kind |-> "users", active |-> 1, data |-> [k \in Users |-> NoSession],
                own |-> [u \in Users |-> NoSession]]
    /\ starts = 0
    /\ limit = [msgs |-> 1, starts |-> MaxStarts]

NextTwoUsers ==
    \/ SwitchUser
    \/ StartCommand
    \/ SelectSearchMode
    \/ HandleCourseSearchInput
    \/ CancelConversation

SpecTwoUsers == InitTwoUsers /\ [][NextTwoUsers]_vars


(***************************************************************************)
(* The subscribe call start_command leaves to a background task            *)
(***************************************************************************)
SubscribeOutcomes == { "ok", "no_content", "http_error", "request_error", "unexpected" }

\* make_api_request: the parsed body, None for an empty answer, or the
\* exception raised again after logging
make_api_request(outcome) ==
    CASE outcome = "ok" -> "dict"
      [] outcome = "no_content" -> "None"
      [] OTHER -> "raise"

\* subscribe_user_api without its try/except
subscribe_user_api_unguarded(outcome) == make_api_request(outcome)

\* subscribe_user_api: except Exception: return None
subscribe_user_api(outcome) ==
    IF make_api_request(outcome) = "raise" THEN "None" ELSE make_api_request(outcome)

\* one of the tasks start_command created ends; start_command does not
\* await it, and a task that never ends is a task that does not take this step
SubscribeTask ==
    /\ probe.kind = "subscribe"
    /\ probe.done < starts
    /\ \E outcome \in SubscribeOutcomes :
          probe' = [probe EXCEPT !.done = @ + 1, !.outcome = outcome,
                                 !.result = subscribe_user_api(outcome)]
    /\ UNCHANGED <<state, fstate, ctx, msgs, last, env, starts, limit>>

InitSubscribe ==
    /\ state = "END"
    /\ fstate = "END"
    /\ ctx = EmptyCtx
    /\ msgs = <<>>
    /\ last = NoLast
    /\ env = OpenEnv
    /\ probe = [kind |-> "subscribe", done |-> 0, outcome |-> "none", result |-> "none"]
    /\ starts = 0
    /\ limit = [msgs |-> MaxStaleMsgs, starts |-> MaxStarts]

NextSubscribe ==
    \/ StartCommand
    \/ SubscribeTask
    \/ SelectSearchMode
    \/ CancelConversation

SpecSubscribe == InitSubscribe /\ [][NextSubscribe]_vars


(***************************************************************************)
(* The text of an error reply (_handle_api_error_async).  A text is a      *)
(* sequence of pieces <<kind, characters>>: "lit" pieces are sent as they  *)
(* are, "esc" pieces went through escape_markdown_v2.                      *)
(***************************************************************************)
ValueTextLimit == 150
DetailLimit == 100

Lit(s) == << <<"lit", s>> >>

\* escape_markdown_v2: every special character gets a backslash
escape_markdown_v2(pieces) == [i \in 1..Len(pieces) |-> <<"esc", pieces[i]>>]

\* what a chat shows of a MarkdownV2 text: the backslashes of the escaped
\* pieces are markup, the characters are shown
Displayed(text) == [i \in 1..Len(text) |-> text[i][2]]

\* s[:n] over pieces: whole pieces while they fit, then the cut piece
RECURSIVE TakeChars(_, _)
TakeChars(pieces, n) ==
    IF pieces = <<>> \/ n <= 0 THEN <<>>
    ELSE IF Len(Head(pieces)) <= n
    THEN <<Head(pieces)>> \o TakeChars(Tail(pieces), n - Len(Head(pieces)))
    ELSE <<"(cut)">>

ErrorClasses == { "HTTPStatusError", "RequestError", "ValueError", "Exception" }

\* str(error) of exceptions the handlers pass on: the ValueErrors raised at
\* handlers.py 793, 999, 1094, 774 and 1183, and two library errors
ErrorTexts ==
    { << "Full prof offering list ('", "all_prof_course_list_results", "') missing." >>,
      << "'", "selected_course", "' missing from context for Y/S selection" >>,
      << "Missing primary data '", "all_course_search_results", "' for pagination of ",
         "course_search" >>,
      << "Professor ID mismatch when selecting course for a professor." >>,
      << "Incorrect parts for Y/S list pagination" >>,
      << "Message to edit not found" >>,
      << "All connection attempts failed" >> }

Errors ==
    [class : ErrorClasses, text : ErrorTexts, status : {"404", "500"},
     detail : { <<>>, <<"Internal Server Error">> }]

\* user_message of _handle_api_error_async
user_message(error) ==
    Lit("X ") \o
    CASE error.class = "HTTPStatusError" ->
            Lit("Backend error (") \o Lit(error.status) \o Lit(") contacting service.")
            \o (IF error.detail # <<>>
                THEN Lit("Details: ")
                     \o escape_markdown_v2(TakeChars(error.detail, DetailLimit))
                ELSE <<>>)
      [] error.class = "RequestError" ->
            Lit("Network error contacting backend service. Please check connection or try again later.")
      [] error.class = "ValueError" ->
            Lit("Data processing error: ")
            \o escape_markdown_v2(TakeChars(error.text, ValueTextLimit))
            \o Lit(". Please restart.")
      [] OTHER -> Lit("An unexpected internal error occurred. Please restart.")

ErrorReplyInputs ==
    { [kind |-> "error", error |-> e, can_edit |-> b, reply |-> [op |-> "none"],
       done |-> FALSE] : e \in Errors, b \in BOOLEAN }

InitErrorReply ==
    /\ state = "END"
    /\ fstate = "END"
    /\ ctx = EmptyCtx
    /\ msgs = <<>>
    /\ last = NoLast
    /\ env = OpenEnv
    /\ probe \in ErrorReplyInputs
    /\ starts = 0
    /\ limit = [msgs |-> 0, starts |-> 0]

\* _handle_api_error_async: the message is edited, or sent when it cannot be
HandleApiErrorAsync ==
    /\ probe.kind = "error"
    /\ ~probe.done
    /\ probe' = [probe EXCEPT
                   !.reply = [op |-> IF probe.can_edit THEN "edit" ELSE "send",
                              text |-> user_message(probe.error),
                              kb |-> get_restart_keyboard],
                   !.done = TRUE]
    /\ UNCHANGED <<state, fstate, ctx, msgs, last, env, starts, limit>>

SpecErrorReply == InitErrorReply /\ [][HandleApiErrorAsync]_vars


(***************************************************************************)
(* A user whose block status at the gateway changes during a conversation  *)
(***************************************************************************)
\* the status get_user_status_api reports is set and lifted by the
\* administrators' block and unblock commands
SetBlockStatus ==
    /\ env' = [env EXCEPT !.blocked = ~@]
    /\ UNCHANGED <<state, fstate, ctx, msgs, last, probe, starts, limit>>

InitBlocked ==
    /\ state = "END"
    /\ fstate = "END"
    /\ ctx = EmptyCtx
    /\ msgs = <<>>
    /\ last = NoLast
    /\ env \in { e \in Envs : ~e.blocked }
    /\ probe = NoProbe
    /\ starts = 0
    /\ limit = [msgs |-> MaxStaleMsgs, starts |-> 1]

NextBlocked ==
    \/ SetBlockStatus
    \/ GateDrop
    \/ StartCommand
    \/ SelectSearchMode
    \/ HandleCourseSearchInput
    \/ CancelConversation

SpecBlocked == InitBlocked /\ [][NextBlocked]_vars


(***************************************************************************)
(* Two professors selected one after the other, the menus of the first     *)
(* still on the screen                                                     *)
(***************************************************************************)
SelectListedProf ==
    \E i \in 1..Len(msgs) :
        \E j \in { k \in 1..Len(msgs[i].kb) : k <= MaxListedItemTap } :
            LET ev == CbEvent(i, j)
            IN /\ Routed(ev, "select_item_callback")
               /\ Head(ev.data) = PROF_SELECT_PREFIX
               /\ \E dossier_ok \in BOOLEAN :
                     Apply("select_item_callback", ev,
                           select_item_callback(W, ev, None, dossier_ok), "none")

InitTwoProfs ==
    /\ state = "END"
    /\ fstate = "END"
    /\ ctx = EmptyCtx
    /\ msgs = <<>>
    /\ last = NoLast
    /\ env = OpenEnv
    /\ probe = NoProbe
    /\ starts = 0
    /\ limit = [msgs |-> MaxMsgs, starts |-> MaxStarts]

NextTwoProfs ==
    \/ StartCommand
    \/ SelectSearchMode
    \/ HandleProfSearchInput
    \/ HandleCourseSearchInput
    \/ SelectListedProf
    \/ SelectListedItem
    \/ ViewProfCourses

SpecTwoProfs == InitTwoProfs /\ [][NextTwoProfs]_vars


(***************************************************************************)
(* A feedback conversation with a browse conversation of the same user     *)
(* going on: both keep their slots in the one user_data                    *)
(***************************************************************************)
MaxMixMsgs == 3

InitFeedbackMix ==
    /\ state = "END"
    /\ fstate = "END"
    /\ ctx = EmptyCtx
    /\ msgs = <<>>
    /\ last = NoLast
    /\ env = OpenEnv
    /\ probe = NoProbe
    /\ starts = 0
    /\ limit = [msgs |-> MaxMixMsgs, starts |-> 1]

NextFeedbackMix ==
    \/ StartCommand
    \/ SelectSearchMode
    \/ CancelConversation
    \/ FeedbackStart
    \/ FeedbackType
    \/ FeedbackMessage
    \/ FeedbackConfirmSend
    \/ FeedbackCancelOrEdit

SpecFeedbackMix == InitFeedbackMix /\ [][NextFeedbackMix]_vars


(***************************************************************************)
(* Two handlers of one user overlapping.  telegram_webhook_endpoint awaits *)
(* process_update for each request, so a second update of the user is      *)
(* dispatched while the handler of the first is suspended in an await; the *)
(* state of the conversation is read when the update is dispatched and     *)
(* written when its handler returns.                                       *)
(***************************************************************************)
MaxOverlapMsgs == 3

\* the payload of a button of a professor's course list: cs_<code>|prof|<id>
ProfCoursePayloadOf(data) ==
    /\ Len(Split(Tail(data), "|")) > 2
    /\ Split(Tail(data), "|")[2] = <<"prof">>

Idle == [t |-> "idle"]

\* select_item_callback for a course button of a search result list, up to
\* the await of get_offerings_for_course_api
select_item_until_await(w, ev) ==
    LET w1 == PopC(w, {"selected_year", "selected_semester"})
        w2 == clear_list_context(w1, "year_semester_list")
        w3 == PopC(w2, {"last_bot_message_obj"})
        w4 == SetC(w3, "original_message_id_for_edit", PInt(ev.msg))
        w5 == SetC(w4, "selected_course", PStr(Split(Tail(ev.data), "|")[1]))
    IN Edit(w5, ev.msg, "fetching_terms", NoKb)

\* the rest of it, with the local variables it read before the await
select_item_from_await(w, ev, search_mode, terms_api) ==
    LET name == <<"select_item_callback">>
        selected_course_code == Split(Tail(ev.data), "|")[1]
        identifier == PStr(selected_course_code)
    IN IF ~Truthy(terms_api)
       THEN Ret("SELECTING_COURSE_RESULTS",
                Edit(w, ev.msg, "no_offerings",
                     << Btn("Back", BACK_TO_COURSE_SEARCH_LIST),
                        Btn("New Search", BACK_TO_MAIN) >>), name)
       ELSE LET w3 == SetC(w, "all_year_semester_list_results", terms_api)
                w4 == SetC(w3, "current_year_semester_list_page", PInt(0))
                w5 == SetC(w4, "current_ys_list_mode", search_mode)
                w6 == SetC(w5, "current_ys_list_identifier", identifier)
            IN Ret("SELECTING_YEAR_SEMESTER",
                   Edit(w6, ev.msg, "year_semester_list",
                        create_year_semester_keyboard(terms_api.v, identifier, search_mode, 0)),
                   name)

\* back_to_main_callback up to the await of send_message
back_to_main_until_await(w, ev) ==
    LET w1 == disable_previous_plot_buttons(w)
        w2 == IF CanEdit(w1, ev.msg) /\ w1.m[ev.msg].kb # NoKb
              THEN EditMarkup(w1, ev.msg, NoKb) ELSE w1
    IN Send(ClearC(w2), "start_prompt", get_start_keyboard)

\* the rest of it; sent is the message send_message returned
back_to_main_from_await(w, sent) ==
    Ret("SELECTING_ACTION", SetC(w, "original_message_id_for_edit", PInt(sent)),
        <<"back_to_main_callback">>)

OverlapStep(h, ev, w) ==
    /\ Len(w.m) <= limit.msgs
    /\ ctx' = w.c
    /\ msgs' = w.m
    /\ last' = [NoLast EXCEPT !.handler = h, !.flow = "browse", !.ev = ev,
                              !.out = w.out, !.before = state]
    /\ UNCHANGED <<fstate, env, starts, limit>>

SelectItemBegin ==
    /\ probe.item = Idle
    /\ \E ev \in CbEvents :
          /\ Routed(ev, "select_item_callback")
          /\ Head(ev.data) = COURSE_SELECT_PREFIX
          /\ ~ProfCoursePayloadOf(ev.data)
          /\ Get(ctx, "search_mode") = PStr(<<"course">>)
          /\ OverlapStep("select_item_callback", ev, select_item_until_await(W, ev))
          /\ probe' = [probe EXCEPT
                         !.item = [t |-> "suspended", ev |-> ev,
                                   search_mode |-> Get(ctx, "search_mode")],
                         !.overlapped = probe.restart # Idle]
          /\ state' = state

SelectItemEnd ==
    /\ probe.item # Idle
    /\ \E terms_api \in TermReplies(Split(Tail(probe.item.ev.data), "|")[1]) :
          LET r == select_item_from_await(W, probe.item.ev, probe.item.search_mode, terms_api)
          IN /\ OverlapStep("select_item_callback", probe.item.ev, r)
             /\ state' = r.st
             /\ probe' = [probe EXCEPT !.item = Idle,
                                       !.finished = IF probe.overlapped THEN @ \cup {"item"}
                                                    ELSE {}]

BackToMainBegin ==
    /\ probe.restart = Idle
    /\ \E ev \in CbEvents :
          /\ Routed(ev, "back_to_main_callback")
          /\ OverlapStep("back_to_main_callback", ev, back_to_main_until_await(W, ev))
          /\ probe' = [probe EXCEPT
                         !.restart = [t |-> "suspended", ev |-> ev, sent |-> Len(msgs) + 1],
                         !.overlapped = probe.item # Idle]
          /\ state' = state

BackToMainEnd ==
    /\ probe.restart # Idle
    /\ LET r == back_to_main_from_await(W, probe.restart.sent)
       IN /\ OverlapStep("back_to_main_callback", probe.restart.ev, r)
          /\ state' = r.st
          /\ probe' = [probe EXCEPT !.restart = Idle,
                                    !.finished = IF probe.overlapped THEN @ \cup {"restart"}
                                                 ELSE {}]

InitOverlap ==
    /\ state = "END"
    /\ fstate = "END"
    /\ ctx = EmptyCtx
    /\ msgs = <<>>
    /\ last = NoLast
    /\ env = OpenEnv
    /\ probe = [kind |-> "overlap", item |-> Idle, restart |-> Idle,
                overlapped |-> FALSE, finished |-> {}]
    /\ starts = 0
    /\ limit = [msgs |-> MaxOverlapMsgs, starts |-> MaxStarts]

NextOverlap ==
    \/ StartCommand
    \/ SelectSearchMode
    \/ HandleCourseSearchInput
    \/ SelectItemBegin
    \/ SelectItemEnd
    \/ BackToMainBegin
    \/ BackToMainEnd

SpecOverlap == InitOverlap /\ [][NextOverlap]_vars


(***************************************************************************)
(* Two pagination taps of one user overlapping.  _handle_pagination_callback *)
(* awaits query.answer(), then stores the cursor and builds the keyboard   *)
(* without suspending, then awaits query.edit_message_text: the edits of   *)
(* two handlers are two requests in flight, on two connections of the      *)
(* pool, and nothing in the code orders their arrival.                     *)
(***************************************************************************)
MaxTaps == 2

TapIds == 1..MaxTaps

\* page_course_search_results_callback from the return of query.answer() to
\* the await of edit_message_text: the context it leaves, and the edit it asks for
page_course_search_results_until_edit(w, ev) ==
    LET r == page_course_search_results_callback(w, ev)
    IN [c |-> r.c, st |-> r.st, shown |-> r.m[ev.msg]]

\* no handler of a pagination tap is running
AllTapsIdle == \A n \in TapIds : probe.taps[n] = Idle

\* a tap on the list while fewer than MaxTaps taps that overlap it were begun
PageTapBegin ==
    \E n \in TapIds, ev \in CbEvents :
        /\ probe.taps[n] = Idle
        /\ \A k \in TapIds : k < n => probe.taps[k] # Idle
        /\ Routed(ev, "page_course_search_results_callback")
        /\ AllTapsIdle \/ probe.begun < MaxTaps
        /\ probe' = [probe EXCEPT !.taps[n] = [t |-> "answering", ev |-> ev],
                                  !.begun = IF AllTapsIdle THEN 1 ELSE @ + 1]
        /\ UNCHANGED <<state, fstate, ctx, msgs, last, env, starts, limit>>

PageTapRender ==
    \E n \in TapIds :
        /\ probe.taps[n].t = "answering"
        /\ LET ev == probe.taps[n].ev
               r == page_course_search_results_until_edit(W, ev)
           IN /\ OverlapStep("page_course_search_results_callback", ev,
                             [c |-> r.c, m |-> msgs, out |-> <<>>])
              /\ probe' = [probe EXCEPT
                             !.taps[n] = [t |-> "editing", ev |-> ev, st |-> r.st,
                                          shown |-> r.shown],
                             !.raised = @ \/ r.st = "END"]
        /\ state' = state

PageTapEnd ==
    \E n \in TapIds :
        /\ probe.taps[n].t = "editing"
        /\ LET tap == probe.taps[n]
           IN /\ OverlapStep("page_course_search_results_callback", tap.ev,
                             [c |-> ctx, m |-> [msgs EXCEPT ![tap.ev.msg] = tap.shown],
                              out |-> <<>>])
              /\ state' = tap.st
        /\ probe' = [probe EXCEPT !.taps[n] = Idle]

InitTwoTaps ==
    /\ state = "END"
    /\ fstate = "END"
    /\ ctx = EmptyCtx
    /\ msgs = <<>>
    /\ last = NoLast
    /\ env = OpenEnv
    /\ probe = [kind |-> "taps", taps |-> [n \in TapIds |-> Idle],
                begun |-> 0, raised |-> FALSE]
    /\ starts = 0
    /\ limit = [msgs |-> 1, starts |-> 1]

NextTwoTaps ==
    \/ StartCommand
    \/ SelectSearchMode
    \/ HandleCourseSearchInput
    \/ PageTapBegin
    \/ PageTapRender
    \/ PageTapEnd

SpecTwoTaps == InitTwoTaps /\ [][NextTwoTaps]_vars


(***************************************************************************)
(* Properties                                                              *)
(***************************************************************************)
HardResets == { "start_command", "back_to_main_callback" }
Handle == "original_message_id_for_edit"

\* C1: a hard reset (/start or the restart button) handled by the browse
\* conversation leaves it in SELECTING_ACTION with the start prompt sent anew
\* and every slot of user_data cleared but the handle of that prompt.
C1_HardResetClearsContext ==
    (last.flow = "browse" /\ last.handler \in HardResets) =>
        /\ state = "SELECTING_ACTION"
        /\ msgs[Len(msgs)].text = "start_prompt"
        /\ ctx[Handle] = PInt(Len(msgs))
        /\ \A k \in Slots \ {Handle} : ctx[k] = Absent

NoRepeat(seq) == \A i, j \in 1..Len(seq) : i # j => seq[i] # seq[j]

\* C2: whatever slots of user_data are present or missing, the chain of
\* handlers a back trigger runs has at most three handlers, runs none of
\* them twice and ends in one state of the conversation; three handlers run
\* only as professor's courses, professor results, professor name prompt.
C2_BackChainBounded ==
    (last.handler \in BackHandlers) =>
        /\ Len(last.trace) \in 1..3
        /\ last.trace[1] = last.handler
        /\ NoRepeat(last.trace)
        /\ state \in BrowseStates \cup {"END"}
        /\ Len(last.trace) = 3 =>
               last.trace = << "back_to_prof_courses_callback",
                               "back_to_prof_search_list_callback",
                               "back_to_typing_prof_callback" >>

C2_ThreeHandlersRun ==
    /\ last.handler = "back_to_prof_courses_callback"
    /\ Len(last.trace) = 3
    /\ state = "TYPING_PROF"

\* the list state a back trigger returns to
BackTarget(h) ==
    CASE h = "back_to_prof_courses_callback" -> "SELECTING_COURSE_FOR_PROF"
      [] h = "back_to_course_search_list_callback" -> "SELECTING_COURSE_RESULTS"
      [] h = "back_to_year_sem_select_callback" -> "SELECTING_YEAR_SEMESTER"
      [] OTHER -> "none"

\* the back trigger was pressed on the message the selection led to
BackAfterSelection ==
    /\ BackTarget(last.handler) # "none"
    /\ last.prev.st = BackTarget(last.handler)
    /\ last.ev.msg = last.prev.dest

\* the menu is shown again as it was when the selection was made
MenuRebuilt ==
    /\ state = last.prev.st
    /\ last.out # <<>>
    /\ msgs[last.out[Len(last.out)].msg].kb = last.prev.menu
    /\ CursorOf(state, ctx) = last.prev.cursor

C4_ExpiredBackFallsBack ==
    (/\ last.handler \in { "back_to_year_sem_select_callback",
                           "back_to_course_list_from_plot_callback" }
     /\ last.before = "SHOWING_FINAL_GRADES"
     /\ last.expired) =>
        state \in { "SELECTING_COURSE_RESULTS", "SELECTING_COURSE_FOR_PROF",
                    "TYPING_COURSE", "TYPING_PROF" }

\* C5: a search whose gateway call timed out or failed at network level
\* ends the conversation, and its reply carries the restart control.
C5_SearchFailureEndsConversation ==
    (/\ last.handler \in {"handle_course_search_input", "handle_prof_search_input"}
     /\ last.api \in {"timeout", "network"}) =>
        /\ state = "END"
        /\ msgs[last.out[Len(last.out)].msg].kb = get_restart_keyboard


IsItem(b) == b.text = "item"
HasControl(kb, label) == \E i \in 1..Len(kb) : kb[i].text = label
Min(a, b) == IF a < b THEN a ELSE b

\* the buttons of the items at positions 8p+1 .. min(8p+8, n) of the list
ItemsOfPage(search_type, n, p) ==
    [i \in 1..(Min(ITEMS_PER_PAGE * p + ITEMS_PER_PAGE, n) - ITEMS_PER_PAGE * p) |->
        IF search_type = "course"
        THEN Btn("item", <<COURSE_SELECT_PREFIX>> \o CourseCode(ITEMS_PER_PAGE * p + i))
        ELSE Btn("item", <<PROF_SELECT_PREFIX, StrOfInt(ITEMS_PER_PAGE * p + i)>>)]

\* C6: page p of a list of n search results shows the items at positions
\* [8p, min(8p+8, n)) in list order, Previous iff p > 0, Next iff 8(p+1) < n,
\* and no pagination control for an empty list; of 12 results page 0 shows
\* 8 items with Next only and page 1 shows 4 items with Previous only.
C6_PageWindowAndControls ==
    (probe.kind = "render" /\ probe.done) =>
        /\ SelectSeq(probe.kb, IsItem) = ItemsOfPage(probe.search_type, probe.n, probe.p)
        /\ HasControl(probe.kb, "Previous") <=> probe.p > 0
        /\ HasControl(probe.kb, "Next") <=>
               ITEMS_PER_PAGE * (probe.p + 1) < probe.n
        /\ probe.n = 0 =>
               ~HasControl(probe.kb, "Previous") /\ ~HasControl(probe.kb, "Next")
        /\ (probe.n = 12 /\ probe.p = 0) =>
               /\ Len(SelectSeq(probe.kb, IsItem)) = 8
               /\ HasControl(probe.kb, "Next") /\ ~HasControl(probe.kb, "Previous")
        /\ (probe.n = 12 /\ probe.p = 1) =>
               /\ Len(SelectSeq(probe.kb, IsItem)) = 4
               /\ HasControl(probe.kb, "Previous") /\ ~HasControl(probe.kb, "Next")

C6_LastPageOfTwelve ==
    /\ probe.kind = "render" /\ probe.done
    /\ probe.n = 12 /\ probe.p = 1
    /\ Len(SelectSeq(probe.kb, IsItem)) = 4
    /\ HasControl(probe.kb, "Previous")

\* the length of the list cached for the list type of a pagination prefix
CachedLen(prefix, c) ==
    LET len(x) == IF Truthy(x) THEN Len(x.v) ELSE 0
    IN CASE prefix = PAGE_COURSE_SEARCH_RESULTS_PREFIX ->
               len(Get(c, "all_course_search_results"))
         [] prefix = PAGE_PROF_SEARCH_RESULTS_PREFIX ->
               len(Get(c, "all_prof_search_results"))
         [] prefix = PAGE_PROF_COURSE_LIST_PREFIX ->
               len(GetD(c, "unique_courses_for_selected_prof_kb",
                        Get(c, "all_prof_course_list_results")))
         [] OTHER ->
               IF Truthy(Get(c, "all_year_semester_list_results"))
               THEN Len(SortTerms(UniqueTerms(c["all_year_semester_list_results"].v)))
               ELSE 0

\* the messages the handling of the last event sent or edited
Rendered == { last.out[k].msg : k \in 1..Len(last.out) }
IsNav(b) == b.text \in {"Previous", "Next"}
TargetPage(b) == IntOfText(<< b.data[Len(b.data)] >>)

\* C7: no Previous or Next control that a handler renders targets a page
\* outside [0, last_page] of the list cached for its list type.
C7_ControlsTargetExistingPages ==
    \A i \in Rendered :
        \A j \in 1..Len(msgs[i].kb) :
            IsNav(msgs[i].kb[j]) =>
                TargetPage(msgs[i].kb[j]) \in
                    0..LastPage(CachedLen(Head(msgs[i].kb[j].data), ctx))

CursorSlots ==
    { [cursor |-> "current_course_search_page", prefix |-> PAGE_COURSE_SEARCH_RESULTS_PREFIX],
      [cursor |-> "current_prof_search_page", prefix |-> PAGE_PROF_SEARCH_RESULTS_PREFIX],
      [cursor |-> "current_prof_course_list_page", prefix |-> PAGE_PROF_COURSE_LIST_PREFIX],
      [cursor |-> "current_year_semester_list_page", prefix |-> PAGE_YEAR_SEMESTER_PREFIX] }

\* C8: the stored page cursor of every list type lies in [0, last_page] of
\* the list cached for that type.
C8_CursorWithinCachedList ==
    \A s \in CursorSlots :
        (ctx[s.cursor] # Absent /\ CachedLen(s.prefix, ctx) > 0) =>
            ctx[s.cursor].v \in 0..LastPage(CachedLen(s.prefix, ctx))

\* C9: decoding the payload a keyboard builder made yields the identifiers
\* and the page index that were encoded, with the field count the handler
\* expects, for every prefix and every identifier the gateway can return.
C9_PayloadRoundTrip ==
    (probe.kind = "codec" /\ probe.done) => probe.ok

Dropped == { "SILENT_DROP", "REPLY_AND_DROP" }

\* C10: under every maintenance value, block status and failure of either
\* check, an event of an elevated user passes the gating filters: it is not
\* dropped and not answered with the maintenance text.
C10_ElevatedPassesGate ==
    env.admin =>
        /\ global_pre_processor(env) = "ALLOW"
        /\ last.handler \notin Dropped
        /\ \A i \in 1..Len(msgs) : msgs[i].text # "maintenance"

C10_ElevatedHandledUnderMaintenance ==
    /\ env.admin
    /\ env.maint = "text" /\ env.redis = "up"
    /\ env.blocked /\ env.api = "up"
    /\ last.handler = "feedback_type_callback"

NotElevated == ~env.admin
MaintenanceOff == env.maint \in {"unset", "false", ""}
MaintenanceOn == env.redis = "up" /\ env.maint \in {"true", "stealth", "text"}

\* C11: for a non-elevated user, a failed read of the maintenance flag makes
\* the maintenance filter drop nothing and a failed block-status call makes
\* the block filter drop nothing; when the other filter has no ground to
\* drop either, the event is allowed through and a handler runs.
C11_GateFailsOpen ==
    NotElevated =>
        /\ env.redis # "up" => get_maintenance_status(env) \in {"None", "raise"}
        /\ env.api = "fail" => ~pre_process_blocked_user(env)
        /\ (env.redis # "up" /\ (env.api = "fail" \/ ~env.blocked)) =>
               global_pre_processor(env) = "ALLOW" /\ last.handler \notin Dropped
        /\ (env.api = "fail" /\ (env.redis # "up" \/ MaintenanceOff)) =>
               global_pre_processor(env) = "ALLOW" /\ last.handler \notin Dropped

C11_HandledWhileBothChecksFail ==
    /\ NotElevated
    /\ env.redis = "timeout" /\ env.maint = "stealth"
    /\ env.api = "fail" /\ env.blocked
    /\ last.handler = "select_search_mode_callback"

ErrorReplied ==
    \E i \in 1..Len(last.out) :
        /\ last.out[i].op \in {"send", "edit"}
        /\ msgs[last.out[i].msg].kb = get_restart_keyboard

\* C13: whenever a handler of the browse flow reports an error to the user
\* (the error reply with the restart control), the browse conversation is in
\* its terminal state once the handling of that event completes.
C13_ErrorReplyEndsConversation ==
    (last.flow = "browse" /\ ErrorReplied) => state = "END"

\* the payload of a year/semester page button that does not split into
\* mode, identifier and page
MalformedPayload ==
    /\ last.handler = "page_year_semester_list_callback"
    /\ Len(Split(Tail(last.ev.data), "_")) # 3

\* a failure that is not a validation failure: the gateway, the payload or
\* the delivery of the plot
NonValidationFailure ==
    \/ last.api \in {"timeout", "network", "bad_data", "send_failed"}
    \/ MalformedPayload

\* the messages the last handler sent or rewrote, and the alerts it showed
RepliedMessages ==
    { last.out[i].msg :
        i \in { j \in 1..Len(last.out) : last.out[j].op \in {"send", "edit", "alert"} } }

\* C14: a handler of the browse or feedback flow that met a non-validation
\* failure answered the user with exactly one reply.
C14_FailureYieldsOneReply ==
    (last.flow \in {"browse", "feedback"} /\ NonValidationFailure) =>
        Cardinality(RepliedMessages) = 1

\* the last handler ended the conversation that ran it
EndedConversation ==
    \/ last.flow = "browse" /\ state = "END"
    \/ last.flow = "feedback" /\ fstate = "END"

\* C15: whenever a handler ends its conversation, the user's context is
\* empty afterwards.
C15_EndLeavesContextEmpty ==
    EndedConversation => ctx = EmptyCtx

\* C16: when the inactivity timeout of a conversation fires, the session is
\* left as Cancel leaves it: the conversation is in its terminal state and
\* the context is cleared.
C16_TimeoutLeavesSessionAsCancel ==
    last.handler = "conversation_timeout" =>
        /\ last.flow = "browse" => state = "END"
        /\ last.flow = "feedback" => fstate = "END"
        /\ ctx = EmptyCtx

\* the Cancel buttons the chat shows, and the /cancel command
CancelEvents ==
    { ev \in CbEvents : IsCb(ev, CANCEL) } \cup { CmdEvent("/cancel") }

\* C17: in every state of the browse flow the Cancel button and the /cancel
\* command are routed to cancel_conversation of the browse conversation,
\* which ends that conversation and leaves the context empty.
C17_CancelFromEveryBrowseState ==
    /\ state \in BrowseStates =>
            \A ev \in CancelEvents :
                /\ Route(state, fstate, ev) =
                        [flow |-> "browse", handler |-> "cancel_conversation"]
                /\ cancel_conversation(W, ev).st = "END"
                /\ cancel_conversation(W, ev).c = EmptyCtx
    /\ (last.handler = "cancel_conversation" /\ last.flow = "browse") =>
            state = "END" /\ ctx = EmptyCtx

\* C17, reached: the Cancel button of the year/semester menu ended the
\* conversation that held a selection and its lists
C17_CancelledFromYearSemesterMenu ==
    /\ last.handler = "cancel_conversation"
    /\ last.ev.kind = "cb"
    /\ last.before = "SELECTING_YEAR_SEMESTER"
    /\ ~last.expired
    /\ state = "END"
    /\ ctx = EmptyCtx

\* the triggers of a browse state: those registered under the state, and
\* the Different Professor button for the state whose dossier shows it
DeclaredTrigger(st, ev) ==
    \/ st \in BrowseStates /\ BrowseStateRoute(st, ev) # "none"
    \/ st = "SELECTING_COURSE_FOR_PROF" /\ IsCb(ev, BACK_TO_PROF_SEARCH_LIST)

\* Start/Restart, Cancel and help
FlowWideTrigger(ev) ==
    \/ IsCmd(ev, "/start") \/ IsCb(ev, BACK_TO_MAIN)
    \/ IsCmd(ev, "/cancel") \/ IsCb(ev, CANCEL)
    \/ IsCmd(ev, "/help")

\* C18: a handler of the browse conversation runs only on a trigger
\* registered for the state the conversation is in, or on one of the
\* flow-wide Start/Restart, Cancel and help triggers; any other event, such
\* as a button of another state's menu on an older message, runs no handler.
C18_OnlyDeclaredTriggersRun ==
    (last.flow = "browse" /\ last.handler # "none") =>
        DeclaredTrigger(last.before, last.ev) \/ FlowWideTrigger(last.ev)

\* the list slots and the page-cursor slot of each list type
ListAndCursor ==
    { [lists |-> {"all_course_search_results"}, cursor |-> "current_course_search_page"],
      [lists |-> {"all_prof_search_results"}, cursor |-> "current_prof_search_page"],
      [lists |-> {"all_prof_course_list_results", "unique_courses_for_selected_prof_kb"},
       cursor |-> "current_prof_course_list_page"],
      [lists |-> {"all_year_semester_list_results"},
       cursor |-> "current_year_semester_list_page"] }

\* C19: for each list type, after every handler the cached list and its
\* page cursor are both present or both absent in the context.
C19_ListAndCursorTogether ==
    \A p \in ListAndCursor :
        (\E l \in p.lists : ctx[l] # Absent) <=> (ctx[p.cursor] # Absent)

\* C20: a handler run for the browse conversation leaves the feedback slots
\* of the context as they were, and a handler run for the feedback
\* conversation leaves the browse slots as they were.
C20_FlowsKeepToTheirSlots ==
    [][/\ last'.flow = "browse" => \A k \in FeedbackSlots : ctx'[k] = ctx[k]
       /\ last'.flow = "feedback" => \A k \in BrowseSlots : ctx'[k] = ctx[k]]_vars

\* the slots the handlers of a browse state read
RequiredSlots(st) ==
    CASE st = "SELECTING_YEAR_SEMESTER" ->
            { "selected_course", "all_year_semester_list_results",
              "current_year_semester_list_page", "current_ys_list_mode",
              "current_ys_list_identifier" }
      [] st = "SELECTING_COURSE_FOR_PROF" -> { "selected_prof_id" }
      [] st = "SELECTING_COURSE_RESULTS" ->
            { "all_course_search_results", "current_course_search_page" }
      [] st = "SELECTING_PROF_RESULTS" ->
            { "all_prof_search_results", "current_prof_search_page" }
      [] OTHER -> {}

\* C21: in every reachable state the context holds every slot the handlers
\* of the browse conversation's current state read.
C21_StateHasItsSlots ==
    \A k \in RequiredSlots(state) : ctx[k] # Absent

\* the slots that belong only to the states after a course list
AfterCourseList ==
    { "selected_course", "all_year_semester_list_results",
      "current_year_semester_list_page", "current_ys_list_mode",
      "current_ys_list_identifier", "selected_year", "selected_semester" }

\* the slots that belong only to the states after the professor results
AfterProfResults ==
    AfterCourseList \cup { "selected_prof_id" } \cup ListSlots("prof_course_list")

\* C22: after a backward-moving handler has returned the conversation to a
\* course list, the slots of the later states are absent; after a return to
\* the professor search results the selected professor and the professor's
\* course list are absent as well.
C22_BackClearsForwardSlots ==
    (last.flow = "browse" /\ last.handler \in BackHandlers) =>
        /\ state \in {"SELECTING_COURSE_RESULTS", "SELECTING_COURSE_FOR_PROF"} =>
                \A k \in AfterCourseList : ctx[k] = Absent
        /\ state = "SELECTING_PROF_RESULTS" =>
                \A k \in AfterProfResults : ctx[k] = Absent

\* the mode and identifier a year/semester button carries are those of the
\* session's current selection
PayloadMatchesSelection(data, c) ==
    LET parts == Split(Tail(data), "|")
    IN /\ Len(parts) = 4
       /\ PStr(parts[3]) = Get(c, "search_mode")
       /\ parts[3] = <<"course">> => PStr(parts[4]) = Get(c, "selected_course")
       /\ parts[3] = <<"prof">> => parts[4] = PyStr(Get(c, "selected_prof_id"))

\* C23: when a tap on a year/semester button led to a grade record being
\* fetched and shown, the button was one of the menu built for the course
\* (or professor) the session has selected; a button of another selection's
\* menu never gets a record shown.
C23_RecordOfTheMenusCourse ==
    (/\ last.handler = "select_year_semester_callback"
     /\ state = "SHOWING_FINAL_GRADES"
     /\ last.api = "ok") =>
        PayloadMatchesSelection(last.ev.data, ctx)

PageHandlers ==
    { "page_course_search_results_callback", "page_prof_search_results_callback",
      "page_prof_course_list_callback", "page_year_semester_list_callback" }

CachedListSlots ==
    { "all_course_search_results", "all_prof_search_results",
      "all_prof_course_list_results", "unique_courses_for_selected_prof_kb",
      "all_year_semester_list_results" }

\* the keyboard of the page a pagination payload asks for, built from the
\* list cached in c
PageOfCachedList(h, data, c) ==
    CASE h = "page_course_search_results_callback" ->
            create_search_results_keyboard(c["all_course_search_results"].v, "course",
                                           IntOfText(Tail(data)))
      [] h = "page_prof_search_results_callback" ->
            create_search_results_keyboard(c["all_prof_search_results"].v, "prof",
                                           IntOfText(Tail(data)))
      [] h = "page_prof_course_list_callback" ->
            create_prof_course_selection_keyboard(
                c["unique_courses_for_selected_prof_kb"].v,
                RSplit1(Tail(data), "_")[1], IntOfText(RSplit1(Tail(data), "_")[2]))
      [] OTHER ->
            create_year_semester_keyboard(
                c["all_year_semester_list_results"].v,
                PStr(Split(Tail(data), "_")[2]), PStr(Split(Tail(data), "_")[1]),
                IntOfText(Split(Tail(data), "_")[3]))

\* C24: a pagination or back handler consults no gateway answer and replaces
\* no cached list (a back handler may drop one); the page a pagination
\* handler shows is the keyboard of the requested page of the list that was
\* cached before the event, so the same page of the same list is always
\* rendered the same.
C24_PagesFromCachedList ==
    [][(last'.flow = "browse" /\ last'.handler \in (PageHandlers \cup BackHandlers)) =>
          /\ last'.api = "none"
          /\ \A k \in CachedListSlots : ctx'[k] \in {ctx[k], Absent}
          /\ (last'.handler \in PageHandlers /\ state' # "END") =>
                /\ state' = state
                /\ msgs'[last'.ev.msg].kb =
                        PageOfCachedList(last'.handler, last'.ev.data, ctx)]_vars

\* C24, reached: page 0 of the course results, first rendered by the search,
\* is rendered again by Previous from page 1 and is the page of the list the
\* search cached
C24_FirstPageRenderedAgain ==
    /\ last.handler = "page_course_search_results_callback"
    /\ state = "SELECTING_COURSE_RESULTS"
    /\ ctx["current_course_search_page"] = PInt(0)
    /\ Len(ctx["all_course_search_results"].v) = SearchLimit
    /\ msgs[last.ev.msg].kb =
            create_search_results_keyboard(SearchList("course", SearchLimit).v, "course", 0)


SearchInputHandlers == { "handle_course_search_input", "handle_prof_search_input" }

\* the query of the step is shorter than the minimum of the handler that took it
TooShortQuery(l) ==
    /\ l.handler \in SearchInputHandlers
    /\ TextLen(l.ev.text) < (IF l.handler = "handle_course_search_input" THEN 2 ELSE 3)

RepromptOps(out) == SelectSeq(out, LAMBDA o : o.op \in {"send", "edit"})

\* C25: a search text shorter than the minimum (2 for a course, 3 for a
\* professor, counted after trimming) is answered by one re-prompt with the
\* Cancel keyboard; the state stays the typing state it was, the gateway is
\* not asked, and no slot but the identifier of the prompt message changes.
C25_ShortQueryRepromptsInPlace ==
    [][TooShortQuery(last') =>
          /\ state' = state
          /\ state \in {"TYPING_COURSE", "TYPING_PROF"}
          /\ last'.api = "not_called"
          /\ \A k \in Slots \ {"original_message_id_for_edit"} : ctx'[k] = ctx[k]
          /\ Len(RepromptOps(last'.out)) = 1
          /\ RepromptOps(last'.out)[1].text = "min_len"
          /\ msgs'[RepromptOps(last'.out)[1].msg].kb = get_cancel_keyboard]_vars

\* two characters typed for a professor search, re-prompted in TYPING_PROF
C25_TwoCharProfQueryReprompted ==
    /\ last.handler = "handle_prof_search_input"
    /\ last.ev.text = "q2"
    /\ last.api = "not_called"
    /\ state = "TYPING_PROF"
    /\ Len(RepromptOps(last.out)) = 1
    /\ RepromptOps(last.out)[1].text = "min_len"



\* the (academic year, semester) pairs of the term buttons of a menu, in order
MenuPairs(kb) ==
    LET items == SelectSeq(kb, LAMBDA b : b.text = "item")
    IN [i \in 1..Len(items) |-> <<items[i].data[2], items[i].data[4]>>]

CompletePairs(terms) ==
    { <<terms[i].academic_year, terms[i].semester>> : i \in 1..Len(terms) }
        \ { pr \in TermYears \X TermSemesters : pr[2] = "" }

ArrivalOrders(terms) ==
    { [i \in 1..Len(terms) |-> terms[f[i]]] :
        f \in { g \in [1..Len(terms) -> 1..Len(terms)] :
                   \A a, b \in 1..Len(terms) : a # b => g[a] # g[b] } }

\* C26: the menu lists each distinct (academic year, semester) pair once,
\* newest starting year first and Odd, Even, Summer within a year, and the
\* menu is the same for every arrival order of the same offerings.
C26_TermMenuIndependentOfArrival ==
    (probe.kind = "term_menu" /\ probe.done) =>
        LET pairs == MenuPairs(probe.kb)
        IN /\ { pairs[i] : i \in 1..Len(pairs) } = CompletePairs(probe.terms)
           /\ Len(pairs) = Cardinality(CompletePairs(probe.terms))
           /\ \A i, j \in 1..Len(pairs) :
                 i < j =>
                    /\ StartYear(pairs[i][1]) >= StartYear(pairs[j][1])
                    /\ (pairs[i][1] = pairs[j][1]
                          /\ {pairs[i][2], pairs[j][2]} \subseteq {"Odd", "Even", "Summer"})
                        => SemRank(pairs[i][2]) < SemRank(pairs[j][2])
           /\ \A other \in ArrivalOrders(probe.terms) :
                 create_year_semester_keyboard(other, PStr(<<"CRS1">>),
                                               PStr(<<"course">>), 0) = probe.kb

\* the same, for lists whose semesters are all among Odd, Even and Summer
C26_KnownSemestersOrdered ==
    (/\ probe.kind = "term_menu"
     /\ \A i \in 1..Len(probe.terms) :
           probe.terms[i].semester \in {"Odd", "Even", "Summer", ""})
        => C26_TermMenuIndependentOfArrival



C28_SubscribeOffTheReplyPath ==
    [][probe.kind = "subscribe" =>
          /\ starts' # starts =>
                /\ last'.handler = "start_command"
                /\ state' = "SELECTING_ACTION"
                /\ last'.out = << [op |-> "send", text |-> "start_prompt", msg |-> Len(msgs')] >>
                /\ msgs'[Len(msgs')].kb = get_start_keyboard
          /\ probe' # probe =>
                /\ probe'.result \in {"dict", "None"}
                /\ UNCHANGED <<state, fstate, ctx, msgs, last>>]_vars

\* a second start answered while the task of the first has failed and the
\* task of the second has not ended
C28_StartAfterFailedSubscribe ==
    /\ probe.kind = "subscribe"
    /\ starts = 2
    /\ probe.done = 1
    /\ probe.outcome = "request_error"
    /\ last.handler = "start_command"
    /\ state = "SELECTING_ACTION"



Pieces(seq) == { seq[i] : i \in 1..Len(seq) }

\* the pieces internal to the bot: the names of the slots and of the lists
InternalNames ==
    Slots \cup { "course_search", "prof_search", "prof_course_list", "year_semester_list" }

\* C29: an error reply shows no piece of the text of the caught exception
\* and no name of a context slot or of a list, whatever the class of the error.
C29_NoDiagnosticsInReplies ==
    (probe.kind = "error" /\ probe.done) =>
        /\ Pieces(Displayed(probe.reply.text)) \cap Pieces(probe.error.text) = {}
        /\ Pieces(Displayed(probe.reply.text)) \cap InternalNames = {}

\* the same, for the errors that are not a ValueError
C29_OtherClassesQuoteNothing ==
    (probe.kind = "error" /\ probe.error.class # "ValueError")
        => C29_NoDiagnosticsInReplies



\* the block check is reached (the user is not elevated and the maintenance
\* check let the event pass) and the gateway answers that the user is blocked
BlockReported ==
    /\ NotElevated
    /\ get_maintenance_status(env) \in {"None", ""}
    /\ env.api = "up"
    /\ env.blocked

ErrorReplyMessages ==
    { last.out[i].msg : i \in { k \in 1..Len(last.out) :
                                  /\ last.out[k].op \in {"send", "edit"}
                                  /\ msgs[last.out[k].msg].kb = get_restart_keyboard } }

\* C31: after a browse handler has ended the conversation with an error reply,
\* a press of the restart control of that reply is routed to
\* back_to_main_callback, which sends the initial prompt and enters
\* SELECTING_ACTION.
C31_RestartAcceptedAfterError ==
    (last.flow = "browse" /\ state = "END" /\ Allowed) =>
        \A m \in ErrorReplyMessages :
            /\ Route(state, fstate, CbEvent(m, 1)).handler = "back_to_main_callback"
            /\ back_to_main_callback(W, CbEvent(m, 1)).st = "SELECTING_ACTION"



\* the messages the last handler sent or edited
RenderedMessages ==
    { last.out[i].msg : i \in { k \in 1..Len(last.out) :
                                  last.out[k].op \in {"send", "edit", "edit_markup"} } }

\* C32: when a browse handler leaves the conversation in a non-terminal
\* state, every button of the menus it rendered is routed to a handler in
\* that state (by a trigger of the state or by a fallback of the flow).
C32_RenderedButtonsAccepted ==
    (last.flow = "browse" /\ state # "END") =>
        \A m \in RenderedMessages :
            \A j \in 1..Len(msgs[m].kb) :
                BrowseRoute(state, CbEvent(m, j)) # "none"

\* the same, but for the menu select_item_callback shows for a course
\* without offerings
C32_OtherMenusAccepted ==
    (\A m \in RenderedMessages : msgs[m].text # "no_offerings")
        => C32_RenderedButtonsAccepted



\* the payload is of a button of a professor's course list: cs_<code>|prof|<id>
ProfCoursePayload(data) ==
    /\ Head(data) = COURSE_SELECT_PREFIX
    /\ Len(Split(Tail(data), "|")) > 2
    /\ Split(Tail(data), "|")[2] = <<"prof">>

\* C33: a course selection whose payload names a professor, handled while
\* the session's selected professor is another one or none, ends the
\* conversation with an error reply and never enters SELECTING_YEAR_SEMESTER.
C33_ProfMismatchDetected ==
    [][(/\ last' # last
        /\ last'.handler = "select_item_callback"
        /\ ProfCoursePayload(last'.ev.data)
        /\ PyStr(Get(ctx, "selected_prof_id")) # Split(Tail(last'.ev.data), "|")[3])
       => /\ state' = "END"
          /\ \E i \in 1..Len(last'.out) :
                /\ last'.out[i].op \in {"send", "edit"}
                /\ msgs'[last'.out[i].msg].kb = get_restart_keyboard]_vars

\* a button of a professor's course list tapped with no professor selected
C33_ProfCourseTappedWithoutProf ==
    /\ last.handler = "select_item_callback"
    /\ ProfCoursePayload(last.ev.data)
    /\ ctx["selected_prof_id"] = Absent
    /\ state = "END"

\* a button of a professor's course list tapped while another professor is selected
C33_ProfCourseTappedForOtherProf ==
    /\ last.handler = "select_item_callback"
    /\ ProfCoursePayload(last.ev.data)
    /\ Truthy(ctx["selected_prof_id"])
    /\ PyStr(ctx["selected_prof_id"]) # Split(Tail(last.ev.data), "|")[3]
    /\ state = "END"



\* C34: while the feedback flow is in TYPING_FEEDBACK_MESSAGE, a text of the
\* user is taken by feedback_message_handler, which stores it and moves the
\* feedback flow to CONFIRM_FEEDBACK_SUBMISSION, whatever the browse state;
\* it is not taken as a search query.
C34_TextGoesToFeedback ==
    [][(/\ fstate = "TYPING_FEEDBACK_MESSAGE"
        /\ last' # last
        /\ last'.ev.kind = "text")
       => /\ last'.handler = "feedback_message_handler"
          /\ fstate' = "CONFIRM_FEEDBACK_SUBMISSION"
          /\ ctx'["feedback_message"] = PStr(<<last'.ev.text>>)]_vars

\* the same, for the browse states that have no trigger for a text
C34_TextGoesToFeedbackOutsideTyping ==
    [][(/\ fstate = "TYPING_FEEDBACK_MESSAGE"
        /\ state \notin {"TYPING_COURSE", "TYPING_PROF"}
        /\ last' # last
        /\ last'.ev.kind = "text")
       => /\ last'.handler = "feedback_message_handler"
          /\ fstate' = "CONFIRM_FEEDBACK_SUBMISSION"
          /\ ctx'["feedback_message"] = PStr(<<last'.ev.text>>)]_vars



FeedbackMenus == { get_feedback_type_keyboard, get_feedback_confirmation_keyboard }

\* the event is /cancel, or a tap on the button of a feedback menu that carries CANCEL
FeedbackCancelEvent(ev) ==
    \/ IsCmd(ev, "/cancel")
    \/ /\ IsCb(ev, CANCEL)
       /\ ev.msg \in 1..Len(msgs)
       /\ msgs[ev.msg].kb \in FeedbackMenus

\* C35: while the feedback flow is in one of its states, /cancel and the
\* Cancel button of a feedback menu end the feedback flow, whatever the
\* state of the browse flow.
C35_CancelEndsFeedback ==
    [][(/\ fstate # "END"
        /\ last' # last
        /\ last'.handler \notin Dropped
        /\ FeedbackCancelEvent(last'.ev))
       => fstate' = "END"]_vars

\* the same, while the browse flow has no conversation
C35_CancelEndsFeedbackAlone ==
    [][(/\ fstate # "END"
        /\ state = "END"
        /\ last' # last
        /\ last'.handler \notin Dropped
        /\ FeedbackCancelEvent(last'.ev))
       => fstate' = "END"]_vars



\* the payloads the last handler submitted to the gateway as feedback
SubmittedFeedback(l) ==
    { l.out[i].text : i \in { k \in 1..Len(l.out) : l.out[k].op = "submit_feedback" } }

FeedbackInProgress == { "TYPING_FEEDBACK_MESSAGE", "CONFIRM_FEEDBACK_SUBMISSION" }

\* C36: feedback is submitted by the confirm trigger in
\* CONFIRM_FEEDBACK_SUBMISSION only, and what is submitted is the type chosen
\* in ASK_FEEDBACK_TYPE and the text typed in TYPING_FEEDBACK_MESSAGE of this
\* feedback conversation: the choice is stored, the text is stored, neither
\* changes while the conversation goes on, and the payload is the two.
C36_SubmittedFeedbackIsTheUsers ==
    [][last' # last =>
          /\ last'.handler = "feedback_type_callback"
                => ctx'["feedback_type"] = PStr(last'.ev.data)
          /\ last'.handler = "feedback_message_handler"
                => ctx'["feedback_message"] = PStr(<<last'.ev.text>>)
          /\ (fstate \in FeedbackInProgress /\ fstate' \in FeedbackInProgress)
                => ctx'["feedback_type"] = ctx["feedback_type"]
          /\ (fstate = "CONFIRM_FEEDBACK_SUBMISSION" /\ fstate' = fstate)
                => ctx'["feedback_message"] = ctx["feedback_message"]
          /\ SubmittedFeedback(last') # {}
                => /\ last'.handler = "feedback_confirm_send_callback"
                   /\ fstate = "CONFIRM_FEEDBACK_SUBMISSION"
                   /\ SubmittedFeedback(last')
                          = { <<ctx["feedback_type"], ctx["feedback_message"]>> }]_vars

\* a submitted payload carries one of the three types of the type menu
C36_SubmittedTypeIsOfTheMenu ==
    \A pl \in SubmittedFeedback(last) :
        pl[1] \in { PStr(FEEDBACK_TYPE_BUG), PStr(FEEDBACK_TYPE_SUGGESTION),
                    PStr(FEEDBACK_TYPE_GENERAL) }

\* the slots select_item_callback writes for a course: the selection, the cached
\* term list, its cursor and the two slots that say whose list it is
SuspendedHandlerSlots ==
    {"selected_course", "all_year_semester_list_results",
     "current_year_semester_list_page", "current_ys_list_mode",
     "current_ys_list_identifier"}

BothOverlappedCompleted ==
    /\ probe.kind = "overlap"
    /\ probe.item = Idle
    /\ probe.restart = Idle
    /\ probe.finished = {"item", "restart"}

\* C37: when the restart trigger was handled while select_item_callback was
\* suspended on the gateway call, then once both have completed the conversation
\* is in SELECTING_ACTION and no slot written by the suspended handler is in the
\* context, whichever of the two completed last
C37_RestartWinsOverSuspendedHandler ==
    BothOverlappedCompleted =>
        /\ state = "SELECTING_ACTION"
        /\ \A k \in SuspendedHandlerSlots : ctx[k] = Absent

\* C37: the same when the restart was the one that completed last; the state is
\* then SELECTING_ACTION and only the slots are left over
C37_SlotsGoneWhenRestartCompletesLast ==
    (BothOverlappedCompleted /\ last.handler = "back_to_main_callback") =>
        \A k \in SuspendedHandlerSlots : ctx[k] = Absent

\* C37: a restart completing last does leave the conversation in SELECTING_ACTION
C37_StateWhenRestartCompletesLast ==
    (BothOverlappedCompleted /\ last.handler = "back_to_main_callback") =>
        state = "SELECTING_ACTION"

C37_RestartCompletedLast ==
    BothOverlappedCompleted /\ last.handler = "back_to_main_callback"

TwoTapsCompleted ==
    /\ probe.kind = "taps"
    /\ AllTapsIdle
    /\ probe.begun = MaxTaps

\* C38: when two pagination taps of one user for the same list were handled
\* interleaved, neither raised, and once both have completed the stored cursor
\* is the page of the keyboard the message shows
C38_CursorMatchesScreenAfterTwoTaps ==
    TwoTapsCompleted =>
        /\ ~probe.raised
        /\ \E i \in 1..Len(msgs) :
              msgs[i].kb = CurrentMenu("SELECTING_COURSE_RESULTS", ctx)

\* C38: both taps are decoded and rendered against the cached list: neither
\* raises and the conversation stays on the list
C38_InterleavedTapsDoNotRaise ==
    TwoTapsCompleted => (~probe.raised /\ state = "SELECTING_COURSE_RESULTS")

C38_TwoTapsRendered ==
    /\ TwoTapsCompleted
    /\ ~probe.raised
    /\ state = "SELECTING_COURSE_RESULTS"

\* C39: in every reachable state the selected professor name is the name of the
\* professor the selected professor id identifies, so the header of a course
\* list names the professor whose courses are listed
C39_ProfNameIsOfSelectedProf ==
    ctx["selected_prof_id"] # Absent =>
        ctx["selected_prof_name"] = PStr(ProfName(ctx["selected_prof_id"].v))

\* C39: the same, looked at only where the header is written: a course list
\* sent by view_prof_courses_callback
C39_CourseListHeaderNamesItsProf ==
    (last.handler = "view_prof_courses_callback"
     /\ last.ev.kind = "cb"
     /\ ctx["selected_prof_name"] # Absent) =>
        ctx["selected_prof_name"] = PStr(ProfName(IntOfText(Tail(last.ev.data))))

\* C39: a selection in the professor result list does store the name with the id
C39_SelectionStoresNameWithId ==
    (last.handler = "select_item_callback"
     /\ last.ev.kind = "cb"
     /\ Head(last.ev.data) = PROF_SELECT_PREFIX) =>
        /\ ctx["selected_prof_id"] = PInt(IntOfText(Tail(last.ev.data)))
        /\ ctx["selected_prof_name"] = PStr(ProfName(IntOfText(Tail(last.ev.data))))


============================================================================
